---- MODULE Spec2Model ----
\* The kernel node of kernel/node.go: the consensus-node registry, the
\* node-state sequence index, the consensus threshold and readiness rules and
\* the peer authentication of both transport generations.
\*
\* Time. Node timestamps are nanoseconds in the code; every duration the code
\* compares them with (SnapshotRoundGap, KernelNodeAcceptPeriodMinimum, ...)
\* is a whole number of seconds, so the model counts registry time in seconds
\* and keeps every comparison of the code as it is written. The handshake
\* timestamps are Unix seconds in the code and in the model.
EXTENDS Integers, Sequences, FiniteSets, TLC

VARIABLES
    store,                      \* persistStore: the node records ReadAllNodes returns
    allNodesSortedWithState,    \* Node.allNodesSortedWithState
    nodeStateSequences,         \* Node.nodeStateSequences
    acceptedNodeStateSequences, \* Node.acceptedNodeStateSequences
    wire,                       \* the handshake message in flight, as the receiver gets it
    origin,                     \* who built it, for whom, when, and the bit flipped in transit
    SyncPoints,                 \* Node.SyncPoints.m: peer -> its latest sync point of this chain
    SyncPointsMap,              \* Node.SyncPointsMap: the published snapshot of SyncPoints
    LegacySyncPoints,           \* Node.LegacySyncPoints.m
    LegacySyncPointsMap,        \* Node.LegacySyncPointsMap
    chain,                      \* Node.chain: its State is nil (<<>>) or one state (<<s>>)
    updating,                   \* the UpdateSyncPoint calls in progress, one per transport goroutine
    done,                       \* Node.done is closed
    pusher,                     \* where sendGraphToConcensusNodes stands
    loading,                    \* the LoadConsensusNodes call in progress, if any
    reading,                    \* the CheckBroadcastedToP2PPeers call in progress, if any
    boot,                       \* where SetupNode stands, and what it returned
    call,                       \* the operation that ran last, with its arguments
    ret                         \* what it returned

vars == <<store, allNodesSortedWithState, nodeStateSequences,
          acceptedNodeStateSequences, wire, origin, SyncPoints, SyncPointsMap,
          LegacySyncPoints, LegacySyncPointsMap, chain, updating, done, pusher,
          loading, reading, boot, call, ret>>
registry == <<store, allNodesSortedWithState, nodeStateSequences,
              acceptedNodeStateSequences>>
handshake == <<wire, origin>>
syncing == <<SyncPoints, SyncPointsMap, LegacySyncPoints, LegacySyncPointsMap,
             chain, updating>>
pushing == <<done, pusher>>
running == <<loading, reading, boot>>

-----------------------------------------------------------------------------
\* Constants of the packages config, common, crypto and time, as node.go
\* uses them.

Minute == 60
Hour == 3600
SnapshotRoundGap == 3
SnapshotReferenceThreshold == 10
KernelNodeAcceptPeriodMinimum == 12 * Hour
KernelMinimumNodesCount == 7
ThresholdSentinel == 1000
HashSize == 32
SignatureSize == 64
TimestampSize == 8
AuthMessageSize == 137
LegacyTimeout == 3

NodeStatePledging == "PLEDGING"
NodeStateAccepted == "ACCEPTED"
NodeStateRemoved == "REMOVED"
NodeStateCancelled == "CANCELLED"
NodeStateResigning == "RESIGNING"
NodeStates == {NodeStatePledging, NodeStateAccepted, NodeStateRemoved,
               NodeStateCancelled, NodeStateResigning}

-----------------------------------------------------------------------------
\* Bounds of the model.

\* node records the store holds beyond the genesis ones
MaxEvents == 1
\* the timestamp of the genesis records
Epoch == 100
\* graph messages counted
MaxGraphsSent == 60

-----------------------------------------------------------------------------
\* Keys, addresses and hashes. A signer is named by the number k of its
\* private spend key; PublicSpendKey(k) are the 32 bytes of its public key,
\* and IdBytes(k) the 32 bytes of the crypto.Hash
\* signer.Hash().ForNetwork(networkId). The hash is modelled as a bijection
\* on 32-byte strings (no collisions), bytewise b -> (37 * b + 11) mod 256.

GenesisKeys == 1 .. 7
PledgeKeys == {8, 9}
Keys == GenesisKeys \cup PledgeKeys

PublicSpendKey(k) == [i \in 1 .. HashSize |-> IF i = 1 THEN 17 * k ELSE 0]

HashForNetwork(pub) == [i \in 1 .. HashSize |-> (37 * pub[i] + 11) % 256]

IdBytes(k) == HashForNetwork(PublicSpendKey(k))

\* crypto.Hash.String(): lower-case hex, two characters a byte; a string is
\* the sequence of its character codes.
HexChar(d) == IF d < 10 THEN 48 + d ELSE 87 + d

HashString(h) ==
    [i \in 1 .. 2 * Len(h) |->
        LET b == h[(i + 1) \div 2]
        IN  HexChar(IF i % 2 = 1 THEN b \div 16 ELSE b % 16)]

\* Go's < on strings of equal length: the first character that differs
\* decides
RECURSIVE StringLessFrom(_, _, _, _)
StringLessFrom(s, t, i, n) ==
    IF i > n THEN FALSE
    ELSE IF s[i] # t[i] THEN s[i] < t[i]
    ELSE StringLessFrom(s, t, i + 1, n)

\* hex strings of hashes have 2 * HashSize characters
StringLess(s, t) == StringLessFrom(s, t, 1, 2 * HashSize)

\* IdForNetwork.String() of the hash of each signer
IdString == [k \in Keys |-> HashString(IdBytes(k))]

\* genesisNodesMap, filled by LoadGenesis before the registry is loaded
genesisNodesMap == GenesisKeys

-----------------------------------------------------------------------------
\* The registry and the node-state sequences.

\* the less function of both sort.Slice calls
NodeLessIdDescending(a, b) ==
    \/ a.Timestamp < b.Timestamp
    \/ /\ a.Timestamp = b.Timestamp
       /\ StringLess(IdString[b.IdForNetwork], IdString[a.IdForNetwork])

NodeLess(a, b) ==
    \/ a.Timestamp < b.Timestamp
    \/ /\ ~(a.Timestamp > b.Timestamp)
       /\ StringLess(IdString[a.IdForNetwork], IdString[b.IdForNetwork])

\* the one element of a singleton set
Only(S) == CHOOSE x \in S : TRUE

\* sort.Slice over a set of nodes no two of which compare equal: each node
\* is put behind the nodes less than it
InsertSorted(sorted, x) ==
    Only({SubSeq(sorted, 1, k) \o <<x>> \o SubSeq(sorted, k + 1, Len(sorted)) :
            k \in {Cardinality({i \in DOMAIN sorted : NodeLess(sorted[i], x)})}})

RECURSIVE SortSlice(_)
SortSlice(S) ==
    IF S = {} THEN <<>>
    ELSE LET x == CHOOSE y \in S : TRUE
         IN  Only({InsertSorted(rest, x) :
                    rest \in {SortSlice(T) : T \in {S \ {x}}}})

\* the loop that numbers the sorted nodes
AssignConsensusIndexAll(nodes) ==
    [i \in DOMAIN nodes |-> [nodes[i] EXCEPT !.ConsensusIndex = i - 1]]

AssignConsensusIndex(nodes) ==
    [i \in DOMAIN nodes |->
        [nodes[i] EXCEPT !.ConsensusIndex =
            Cardinality({j \in 1 .. i - 1 :
                nodes[j].State \in {NodeStateAccepted, NodeStatePledging}})]]

\* the entries the first loop of nodeSequenceWithoutState visits: it breaks
\* at the first entry with Timestamp >= threshold
ScanLength(all, threshold) ==
    IF \E i \in DOMAIN all : all[i].Timestamp >= threshold
    THEN (CHOOSE i \in DOMAIN all :
            /\ all[i].Timestamp >= threshold
            /\ \A j \in 1 .. i - 1 : all[j].Timestamp < threshold) - 1
    ELSE Len(all)

FilteredNodesEveryEntry(all, n, acceptedOnly) ==
    {[IdForNetwork |-> all[i].IdForNetwork,
      Signer |-> all[i].Signer,
      Timestamp |-> all[i].Timestamp,
      State |-> all[i].State,
      ConsensusIndex |-> 0] :
        i \in {i \in 1 .. n : ~acceptedOnly \/ all[i].State = NodeStateAccepted}}

FilteredNodesAcceptedFirst(all, n, acceptedOnly) ==
    {[IdForNetwork |-> all[i].IdForNetwork,
      Signer |-> all[i].Signer,
      Timestamp |-> all[i].Timestamp,
      State |-> all[i].State,
      ConsensusIndex |-> 0] :
        i \in {i \in 1 .. n :
                /\ ~acceptedOnly \/ all[i].State = NodeStateAccepted
                /\ \A j \in i + 1 .. n :
                    \/ all[j].IdForNetwork # all[i].IdForNetwork
                    \/ acceptedOnly /\ all[j].State # NodeStateAccepted}}

\* the values of the map filter after the scan of the first n entries (for
\* each id the last entry scanned), copied when the second loop keeps them
FilteredNodes(all, n, acceptedOnly) ==
    {[IdForNetwork |-> all[i].IdForNetwork,
      Signer |-> all[i].Signer,
      Timestamp |-> all[i].Timestamp,
      State |-> all[i].State,
      ConsensusIndex |-> 0] :
        i \in {i \in 1 .. n :
                /\ \A j \in i + 1 .. n : all[j].IdForNetwork # all[i].IdForNetwork
                /\ ~acceptedOnly \/ all[i].State = NodeStateAccepted}}

nodeSequenceWithoutState(all, threshold, acceptedOnly) ==
    Only({AssignConsensusIndex(sorted) :
            sorted \in {SortSlice(nodes) :
                nodes \in {FilteredNodes(all, n, acceptedOnly) :
                    n \in {ScanLength(all, threshold)}}}})

buildNodeStateSequencesBeforeEntry(all, acceptedOnly) ==
    [i \in DOMAIN all |->
        [Timestamp |-> all[i].Timestamp,
         NodesWithoutState |->
            nodeSequenceWithoutState(all, all[i].Timestamp, acceptedOnly)]]

buildNodeStateSequences(all, acceptedOnly) ==
    [i \in DOMAIN all |->
        [Timestamp |-> all[i].Timestamp,
         NodesWithoutState |->
            nodeSequenceWithoutState(all, all[i].Timestamp + 1, acceptedOnly)]]

NodesListWithoutStateAtOrBefore(threshold, acceptedOnly) ==
    LET sequences == IF acceptedOnly THEN acceptedNodeStateSequences
                     ELSE nodeStateSequences
        hits == {i \in DOMAIN sequences : sequences[i].Timestamp <= threshold}
    IN  IF hits = {} THEN <<>>
        ELSE sequences[CHOOSE i \in hits : \A j \in hits : j <= i].NodesWithoutState

NodesListWithoutState(threshold, acceptedOnly) ==
    LET sequences == IF acceptedOnly THEN acceptedNodeStateSequences
                     ELSE nodeStateSequences
        hits == {i \in DOMAIN sequences : sequences[i].Timestamp < threshold}
    IN  IF hits = {} THEN <<>>
        ELSE sequences[CHOOSE i \in hits : \A j \in hits : j <= i].NodesWithoutState

\* persistStore.ReadAllNodes(threshold, true)
ReadAllNodes(threshold) == {n \in store : n.Timestamp < threshold}

CNodeOf(n) ==
    [IdForNetwork |-> n.Signer, Signer |-> n.Signer, Timestamp |-> n.Timestamp,
     State |-> n.State, ConsensusIndex |-> 0]

-----------------------------------------------------------------------------
\* Threshold and readiness.

ConsensusReadyNotStrict(cn, timestamp) ==
    /\ cn.State = NodeStateAccepted
    /\ \/ cn.IdForNetwork \in genesisNodesMap
       \/ cn.Timestamp + KernelNodeAcceptPeriodMinimum <= timestamp

ConsensusReady(cn, timestamp) ==
    IF cn.State # NodeStateAccepted THEN FALSE
    ELSE IF cn.IdForNetwork \in genesisNodesMap THEN TRUE
    ELSE IF cn.Timestamp + KernelNodeAcceptPeriodMinimum < timestamp THEN TRUE
    ELSE FALSE

CountsInBasePledgingWhenFinal(cn, timestamp, final) ==
    LET threshold == SnapshotReferenceThreshold * SnapshotRoundGap
        t == KernelNodeAcceptPeriodMinimum - threshold * 3
    IN  CASE cn.State = NodeStatePledging ->
                cn.Timestamp + t < timestamp
          [] cn.State = NodeStateAccepted ->
                \/ cn.IdForNetwork \in genesisNodesMap
                \/ cn.Timestamp + threshold < timestamp
          [] OTHER -> FALSE

CountsInBaseAcceptedNotStrict(cn, timestamp, final) ==
    LET threshold == SnapshotReferenceThreshold * SnapshotRoundGap
        t == KernelNodeAcceptPeriodMinimum - threshold * 3
    IN  CASE cn.State = NodeStatePledging ->
                ~final /\ cn.Timestamp + t < timestamp
          [] cn.State = NodeStateAccepted ->
                \/ cn.IdForNetwork \in genesisNodesMap
                \/ cn.Timestamp + threshold <= timestamp
          [] OTHER -> FALSE

\* what one node adds to consensusBase in the loop of ConsensusThreshold
CountsInBase(cn, timestamp, final) ==
    LET threshold == SnapshotReferenceThreshold * SnapshotRoundGap
        t == KernelNodeAcceptPeriodMinimum - threshold * 3
    IN  CASE cn.State = NodeStatePledging ->
                ~final /\ cn.Timestamp + t < timestamp
          [] cn.State = NodeStateAccepted ->
                \/ cn.IdForNetwork \in genesisNodesMap
                \/ cn.Timestamp + threshold < timestamp
          [] OTHER -> FALSE

ThresholdOfBaseMinimumExcluded(consensusBase) ==
    IF consensusBase <= KernelMinimumNodesCount THEN ThresholdSentinel
    ELSE ((consensusBase * 2) \div 3) + 1

ThresholdOfBaseNoSentinel(consensusBase) ==
    ((consensusBase * 2) \div 3) + 1

ThresholdOfBase(consensusBase) ==
    IF consensusBase < KernelMinimumNodesCount THEN ThresholdSentinel
    ELSE ((consensusBase * 2) \div 3) + 1

\* the two panics of the loop: the gap above 3 minutes at any node, the
\* accept period below an hour at a Pledging node
ThresholdPanics(nodes) ==
    \/ nodes # <<>> /\ SnapshotReferenceThreshold * SnapshotRoundGap > 3 * Minute
    \/ /\ \E i \in DOMAIN nodes : nodes[i].State = NodeStatePledging
       /\ KernelNodeAcceptPeriodMinimum < Hour

ConsensusThreshold(timestamp, final) ==
    Only({IF ThresholdPanics(nodes) THEN "panic"
          ELSE ThresholdOfBase(Cardinality(
                {i \in DOMAIN nodes : CountsInBase(nodes[i], timestamp, final)})) :
          nodes \in {NodesListWithoutState(timestamp, FALSE)}})

-----------------------------------------------------------------------------
\* Operations.

-----------------------------------------------------------------------------
\* Peer authentication.  A message is a sequence of bytes.  The hash and the
\* signature scheme are ideal: Blake3Hash never collides, and a signature
\* verifies under a public key exactly when the matching private key made it
\* over the same digest.  A signature keeps its 64 places in the message; the
\* first place carries the key and the digest it was made from.

SelfKey == 1                    \* the node that authenticates its peers
RelayerKeys == {9}              \* the nodes configured as relayers
ListenerOf(k) == IF k = 9 THEN <<>> ELSE <<58, 48 + k>>    \* ":k" as bytes

Pow256 == <<16777216, 65536, 256, 1>>
\* binary.BigEndian.PutUint64 of a value below 2^31
PutUint64(v) ==
    [i \in 1 .. TimestampSize |-> IF i <= 4 THEN 0 ELSE (v \div Pow256[i - 4]) % 256]
\* the uint64 is below 2^31
U64Fits(b) == (\A i \in 1 .. 4 : b[i] = 0) /\ b[5] < 128
\* binary.BigEndian.Uint64 of such bytes
Uint64(b) == b[5] * Pow256[1] + b[6] * Pow256[2] + b[7] * Pow256[3] + b[8]

Blake3Hash(data) == <<"blake3", data>>
Sign(k, dh) == [i \in 1 .. SignatureSize |-> IF i = 1 THEN <<k, dh>> ELSE 0]
Verify(pub, mh, sig) ==
    \E k \in Keys : PublicSpendKey(k) = pub /\ sig = Sign(k, mh)

FlagByte(isRelayer) == IF isRelayer THEN 1 ELSE 0

\* node k builds the handshake for relayerId when its clock reads now
BuildAuthenticationMessage(k, relayerId, now) ==
    LET data == PutUint64(now) \o relayerId \o PublicSpendKey(k)
                  \o <<FlagByte(k \in RelayerKeys)>>
    IN  data \o Sign(k, Blake3Hash(data))

\* math.Abs(float64(now) - float64(ts)) > float64(timeoutSec), for now and
\* timeoutSec far below 2^31
AbsDiffExceeds(now, ts, timeoutSec) ==
    IF U64Fits(ts)
    THEN (IF now >= Uint64(ts) THEN now - Uint64(ts) ELSE Uint64(ts) - now) > timeoutSec
    ELSE TRUE

AuthError(text) == [err |-> text]

AuthenticateAsSignatureFirst(recipientId, msg, timeoutSec, now) ==
    IF Len(msg) # AuthMessageSize THEN AuthError("malformatted")
    ELSE IF timeoutSec > 0 /\ AbsDiffExceeds(now, SubSeq(msg, 1, 8), timeoutSec)
    THEN AuthError("timeout")
    ELSE IF ~Verify(SubSeq(msg, 41, 72), Blake3Hash(SubSeq(msg, 1, 73)),
                    SubSeq(msg, 74, 137))
    THEN AuthError("signature invalid")
    ELSE IF SubSeq(msg, 9, 40) # recipientId THEN AuthError("not for me")
    ELSE IF HashForNetwork(SubSeq(msg, 41, 72)) = recipientId
    THEN AuthError("peer is self")
    ELSE [err |-> "nil",
          token |-> [PeerId |-> HashForNetwork(SubSeq(msg, 41, 72)),
                     Timestamp |-> SubSeq(msg, 1, 8),
                     IsRelayer |-> (msg[73] = 1),
                     Data |-> msg]]

AuthenticateAsRelayerAlways(recipientId, msg, timeoutSec, now) ==
    IF Len(msg) # AuthMessageSize THEN AuthError("malformatted")
    ELSE IF timeoutSec > 0 /\ AbsDiffExceeds(now, SubSeq(msg, 1, 8), timeoutSec)
    THEN AuthError("timeout")
    ELSE IF SubSeq(msg, 9, 40) # recipientId THEN AuthError("not for me")
    ELSE IF HashForNetwork(SubSeq(msg, 41, 72)) = recipientId
    THEN AuthError("peer is self")
    ELSE IF ~Verify(SubSeq(msg, 41, 72), Blake3Hash(SubSeq(msg, 1, 73)),
                    SubSeq(msg, 74, 137))
    THEN AuthError("signature invalid")
    ELSE [err |-> "nil",
          token |-> [PeerId |-> HashForNetwork(SubSeq(msg, 41, 72)),
                     Timestamp |-> SubSeq(msg, 1, 8),
                     IsRelayer |-> TRUE,
                     Data |-> msg]]

AuthenticateAsRecipientFirst(recipientId, msg, timeoutSec, now) ==
    IF Len(msg) # AuthMessageSize THEN AuthError("malformatted")
    ELSE IF SubSeq(msg, 9, 40) # recipientId THEN AuthError("not for me")
    ELSE IF timeoutSec > 0 /\ AbsDiffExceeds(now, SubSeq(msg, 1, 8), timeoutSec)
    THEN AuthError("timeout")
    ELSE IF HashForNetwork(SubSeq(msg, 41, 72)) = recipientId
    THEN AuthError("peer is self")
    ELSE IF ~Verify(SubSeq(msg, 41, 72), Blake3Hash(SubSeq(msg, 1, 73)),
                    SubSeq(msg, 74, 137))
    THEN AuthError("signature invalid")
    ELSE [err |-> "nil",
          token |-> [PeerId |-> HashForNetwork(SubSeq(msg, 41, 72)),
                     Timestamp |-> SubSeq(msg, 1, 8),
                     IsRelayer |-> (msg[73] = 1),
                     Data |-> msg]]

\* the token's Timestamp is the uint64 as its eight big-endian bytes
AuthenticateAs(recipientId, msg, timeoutSec, now) ==
    IF Len(msg) # AuthMessageSize THEN AuthError("malformatted")
    ELSE IF timeoutSec > 0 /\ AbsDiffExceeds(now, SubSeq(msg, 1, 8), timeoutSec)
    THEN AuthError("timeout")
    ELSE IF SubSeq(msg, 9, 40) # recipientId THEN AuthError("not for me")
    ELSE IF HashForNetwork(SubSeq(msg, 41, 72)) = recipientId
    THEN AuthError("peer is self")
    ELSE IF ~Verify(SubSeq(msg, 41, 72), Blake3Hash(SubSeq(msg, 1, 73)),
                    SubSeq(msg, 74, 137))
    THEN AuthError("signature invalid")
    ELSE [err |-> "nil",
          token |-> [PeerId |-> HashForNetwork(SubSeq(msg, 41, 72)),
                     Timestamp |-> SubSeq(msg, 1, 8),
                     IsRelayer |-> (msg[73] = 1),
                     Data |-> msg]]

\* signer.Hash(), and the hash's ForNetwork: the view key is derived from the
\* spend key, so an address is known by its spend key
AddressHash(pub) == [i \in 1 .. HashSize |-> (37 * pub[i]) % 256]
ForNetwork(h) == [i \in 1 .. HashSize |-> (h[i] + 11) % 256]

\* the first listed node with this id that is Accepted or Pledging, in a
\* sequence of its own; the empty sequence is nil
GetAcceptedOrPledgingNode(id, now) ==
    LET nodes == NodesListWithoutState(now, FALSE)
        found == {i \in DOMAIN nodes :
                    /\ IdBytes(nodes[i].IdForNetwork) = id
                    /\ nodes[i].State \in {NodeStateAccepted, NodeStatePledging}}
    IN  IF found = {} THEN <<>>
        ELSE <<nodes[CHOOSE i \in found : \A j \in found : i <= j]>>

\* node k builds the legacy handshake when its clock reads now
BuildLegacyAuthenticationMessage(k, now) ==
    LET data == PutUint64(now) \o PublicSpendKey(k)
    IN  data \o Sign(k, Blake3Hash(data)) \o ListenerOf(k)

\* now - int64(ts) > tolerance in 64-bit two's complement, for now far below
\* 2^31: a ts of 2^63 or more is a negative int64, and the subtraction wraps
\* when the difference passes 2^63 - 1
LegacyTimedOutWithin(now, ts, tolerance) ==
    IF U64Fits(ts) THEN now - Uint64(ts) > tolerance
    ELSE IF ts[1] < 128 THEN FALSE
    ELSE LET low == [ts EXCEPT ![1] = ts[1] - 128]
         IN  ~(U64Fits(low) /\ Uint64(low) <= now)

LegacyTimedOutAtTolerance(now, ts) == LegacyTimedOutWithin(now, ts, LegacyTimeout - 1)

LegacyTimedOut(now, ts) == LegacyTimedOutWithin(now, ts, LegacyTimeout)

\* the node SelfKey authenticates a legacy peer when its clock reads now
Authenticate(msg, now) ==
    IF Len(msg) < TimestampSize + HashSize + SignatureSize
    THEN AuthError("malformated")
    ELSE IF LegacyTimedOut(now, SubSeq(msg, 1, 8)) THEN AuthError("timeout")
    ELSE LET signer == SubSeq(msg, 9, 40)
             peerId == ForNetwork(AddressHash(signer))
             peer == GetAcceptedOrPledgingNode(peerId, now)
         IN  IF peerId = IdBytes(SelfKey) THEN AuthError("invalid consensus peer")
             ELSE IF /\ peer # <<>>
                     /\ AddressHash(PublicSpendKey(peer[1].Signer)) # AddressHash(signer)
             THEN AuthError("invalid consensus peer")
             ELSE IF ~Verify(signer, Blake3Hash(SubSeq(msg, 1, 40)),
                             SubSeq(msg, 41, 104))
             THEN AuthError("signature invalid")
             ELSE [err |-> "nil", peerId |-> peerId,
                   listener |-> SubSeq(msg, 105, Len(msg))]

\* one bit of one byte inverted
FlipBit(msg, i, bit) ==
    [msg EXCEPT ![i] = IF (msg[i] \div (2 ^ bit)) % 2 = 1
                       THEN msg[i] - 2 ^ bit ELSE msg[i] + 2 ^ bit]


-----------------------------------------------------------------------------
\* The sync-point tracker.  A sync point is a peer's view of one chain:
\* [NodeId, Number, Hash].  A peer is named by its key number, as in the
\* registry.  Round hashes are opaque values.

EmptyMap == [k \in {} |-> 0]

\* syncMap.Set and legacySyncMap.Set, under the write lock
Set(m, k, p) == [x \in DOMAIN m \cup {k} |-> IF x = k THEN p ELSE m[x]]
\* syncMap.Map and legacySyncMap.Map, under the read lock: a fresh copy
Map(m) == [k \in DOMAIN m |-> m[k]]

\* the loop of UpdateSyncPoint over points[i..]: the points of this node's
\* own chain are set, the others dropped
RECURSIVE SetPointsKeepAll(_, _, _, _)
SetPointsKeepAll(m, peerId, points, i) ==
    IF i > Len(points) THEN m
    ELSE SetPointsKeepAll(Set(m, peerId, points[i]), peerId, points, i + 1)

RECURSIVE SetPoints(_, _, _, _)
SetPoints(m, peerId, points, i) ==
    IF i > Len(points) THEN m
    ELSE IF points[i].NodeId = SelfKey
         THEN SetPoints(Set(m, peerId, points[i]), peerId, points, i + 1)
         ELSE SetPoints(m, peerId, points, i + 1)

\* cache.asFinal(): nil (<<>>) for a cache round without snapshots
asFinal(cache) ==
    IF cache.Empty THEN <<>> ELSE <<[Hash |-> cache.Hash, Start |-> cache.Start]>>

BroadcastedCountsOnlyAhead(spm, now) ==
    IF DOMAIN spm = {} \/ chain.State = <<>> THEN FALSE
    ELSE Only({1 + Cardinality({i \in DOMAIN nodes :
                    /\ nodes[i].IdForNetwork \in DOMAIN spm
                    /\ spm[nodes[i].IdForNetwork].Number >= final})
                 >= ConsensusThreshold(now, FALSE) :
               nodes \in {NodesListWithoutState(now, TRUE)},
               final \in {chain.State[1].FinalRound.Number}})

BroadcastedIgnoresState(spm, now) ==
    IF DOMAIN spm = {} THEN FALSE
    ELSE Only({1 + Cardinality({i \in DOMAIN nodes :
                    /\ nodes[i].IdForNetwork \in DOMAIN spm
                    /\ spm[nodes[i].IdForNetwork].Number + 1 >= final})
                 >= ConsensusThreshold(now, FALSE) :
               nodes \in {NodesListWithoutState(now, TRUE)},
               final \in {IF chain.State = <<>> THEN 0 ELSE chain.State[1].FinalRound.Number}})

\* the body CheckBroadcastedToP2PPeers and CheckBroadcastedToLegacyPeers
\* share, over the snapshot each of them reads: final, count, threshold,
\* nodes and the loop
Broadcasted(spm, now) ==
    IF DOMAIN spm = {} \/ chain.State = <<>> THEN FALSE
    ELSE Only({1 + Cardinality({i \in DOMAIN nodes :
                    /\ nodes[i].IdForNetwork \in DOMAIN spm
                    /\ spm[nodes[i].IdForNetwork].Number + 1 >= final})
                 >= ConsensusThreshold(now, FALSE) :
               nodes \in {NodesListWithoutState(now, TRUE)},
               final \in {chain.State[1].FinalRound.Number}})

CheckBroadcastedToP2PPeers(now) == Broadcasted(SyncPointsMap, now)
CheckBroadcastedToLegacyPeers(now) == Broadcasted(LegacySyncPointsMap, now)
CheckBroadcastedToPeers(now) ==
    CheckBroadcastedToP2PPeers(now) \/ CheckBroadcastedToLegacyPeers(now)

CatchUpPeriod == SnapshotRoundGap * 100

RemoteBehindOrAgreedTwoAhead(remote, final, cache, now) ==
    IF remote.Number <= final THEN TRUE
    ELSE IF remote.Number > final + 2 THEN FALSE
    ELSE IF cache = <<>> THEN FALSE
    ELSE IF asFinal(cache[1]) = <<>> THEN FALSE
    ELSE IF asFinal(cache[1])[1].Hash # remote.Hash THEN FALSE
    ELSE IF asFinal(cache[1])[1].Start + CatchUpPeriod > now THEN FALSE
    ELSE TRUE

\* one turn of the catch-up loop for a node that has a sync point: TRUE when
\* the loop goes on, FALSE when it returns false
RemoteBehindOrAgreed(remote, final, cache, now) ==
    IF remote.Number <= final THEN TRUE
    ELSE IF remote.Number > final + 1 THEN FALSE
    ELSE IF cache = <<>> THEN FALSE
    ELSE IF asFinal(cache[1]) = <<>> THEN FALSE
    ELSE IF asFinal(cache[1])[1].Hash # remote.Hash THEN FALSE
    ELSE IF asFinal(cache[1])[1].Start + CatchUpPeriod > now THEN FALSE
    ELSE TRUE

\* the body CheckCatchUpWithP2PPeers and CheckCatchUpWithLegacyPeers share;
\* a return false inside the loop makes the result false whatever the order
CatchUp(spm, now) ==
    IF DOMAIN spm = {} \/ chain.State = <<>> THEN FALSE
    ELSE Only({IF \E i \in DOMAIN nodes :
                     /\ nodes[i].IdForNetwork \in DOMAIN spm
                     /\ ~RemoteBehindOrAgreed(spm[nodes[i].IdForNetwork],
                                              chain.State[1].FinalRound.Number,
                                              chain.State[1].CacheRound, now)
               THEN FALSE
               ELSE 1 + Cardinality({i \in DOMAIN nodes :
                                       nodes[i].IdForNetwork \in DOMAIN spm})
                      >= ConsensusThreshold(now, FALSE) :
               nodes \in {NodesListWithoutState(now, TRUE)}})

CheckCatchUpWithP2PPeers(now) == CatchUp(SyncPointsMap, now)
CheckCatchUpWithLegacyPeers(now) == CatchUp(LegacySyncPointsMap, now)
CheckCatchUpWithPeers(now) ==
    CheckCatchUpWithP2PPeers(now) \/ CheckCatchUpWithLegacyPeers(now)

\* the transport goroutines that deliver sync points
Updaters == {1, 2}
Idle == [pc |-> "idle"]


\* sendGraphToConcensusNodes: not started, listing the accepted nodes,
\* sending to nodes[i], or waiting for the ticker; sent counts the graph
\* messages sent, up to MaxGraphsSent
PusherAtStart == [at |-> "idle", nodes |-> <<>>, i |-> 1, sent |-> 0]
\* the steps of SetupNode, in the order of its statements
BootSteps == <<"loadNodeConfig", "lastMintDistribution", "ReadGenesis", "LoadGenesis",
               "getTopologyCounter", "ValidateGraphEntries", "LoadConsensusNodes",
               "LoadAllChainsAndGraphTimestamp", "BootChain">>
\* SetupNode has returned the node
Booted == [pc |-> "returned", ran |-> BootSteps, result |-> "node"]


GenesisRecords ==
    {[Signer |-> k, Timestamp |-> Epoch, State |-> NodeStateAccepted] : k \in GenesisKeys}

\* the nodes whose state changes after genesis, and when
EventKeys == {1, 8}
EventTimes == {Epoch, Epoch + 1}

\* the timestamps the policy operations are asked about: around the
\* records' timestamps and around the ends of the periods counted from them
ThresholdGap == SnapshotReferenceThreshold * SnapshotRoundGap
PledgeMaturity == KernelNodeAcceptPeriodMinimum - 3 * ThresholdGap
ListProbes == {t + d : t \in EventTimes, d \in {0, 1}}
ThresholdProbes ==
    {t + d : t \in EventTimes,
             d \in {0, 1, ThresholdGap, ThresholdGap + 1,
                    PledgeMaturity, PledgeMaturity + 1}}
ReadyOffsets == {1, KernelNodeAcceptPeriodMinimum, KernelNodeAcceptPeriodMinimum + 1}

Loaded(nodes) ==
    \E cnodes \in {SortSlice({CNodeOf(n) : n \in nodes})} :
        /\ allNodesSortedWithState' = cnodes
        /\ nodeStateSequences' = buildNodeStateSequences(cnodes, FALSE)
        /\ acceptedNodeStateSequences' = buildNodeStateSequences(cnodes, TRUE)

\* SetupNode has run: the registry is loaded from a store that holds the
\* genesis records.
Init ==
    /\ store = GenesisRecords
    /\ allNodesSortedWithState = SortSlice({CNodeOf(n) : n \in GenesisRecords})
    /\ nodeStateSequences = buildNodeStateSequences(allNodesSortedWithState, FALSE)
    /\ acceptedNodeStateSequences = buildNodeStateSequences(allNodesSortedWithState, TRUE)
    /\ wire = <<>>
    /\ origin = [kind |-> "none"]
    /\ SyncPoints = EmptyMap
    /\ SyncPointsMap = EmptyMap
    /\ LegacySyncPoints = EmptyMap
    /\ LegacySyncPointsMap = EmptyMap
    /\ chain = [State |-> <<>>]
    /\ updating = [u \in Updaters |-> Idle]
    /\ done = FALSE
    /\ pusher = PusherAtStart
    /\ loading = Idle
    /\ reading = Idle
    /\ boot = Booted
    /\ call = [op |-> "SetupNode"]
    /\ ret = "nil"

\* The ledger persists one more node record: a state change of a node at a
\* timestamp at which the store has no record of that node yet.
StoreWriteNode ==
    /\ Cardinality(store \ GenesisRecords) < MaxEvents
    /\ \E k \in EventKeys, t \in EventTimes, s \in NodeStates :
        /\ \A n \in store : ~(n.Signer = k /\ n.Timestamp = t)
        /\ store' = store \cup {[Signer |-> k, Timestamp |-> t, State |-> s]}
    /\ call' = [op |-> "StoreWriteNode"]
    /\ ret' = "nil"
    /\ UNCHANGED <<allNodesSortedWithState, nodeStateSequences,
                   acceptedNodeStateSequences, handshake, syncing, pushing, running>>

LoadConsensusNodes ==
    /\ \E now \in {Epoch + 1} :
        Loaded(ReadAllNodes(now * 2))
    /\ call' = [op |-> "LoadConsensusNodes"]
    /\ ret' = "nil"
    /\ UNCHANGED <<store, handshake, syncing, pushing, running>>

CallNodesListWithoutState ==
    /\ \E threshold \in ListProbes, acceptedOnly \in BOOLEAN :
        /\ call' = [op |-> "NodesListWithoutState", threshold |-> threshold,
                    acceptedOnly |-> acceptedOnly]
        /\ ret' = NodesListWithoutState(threshold, acceptedOnly)
    /\ UNCHANGED <<registry, handshake, syncing, pushing, running>>

CallConsensusThreshold ==
    /\ \E timestamp \in ThresholdProbes, final \in BOOLEAN :
        /\ call' = [op |-> "ConsensusThreshold", timestamp |-> timestamp,
                    final |-> final]
        /\ ret' = ConsensusThreshold(timestamp, final)
    /\ UNCHANGED <<registry, handshake, syncing, pushing, running>>

CallConsensusReady ==
    /\ \E i \in DOMAIN allNodesSortedWithState, d \in ReadyOffsets :
        LET cn == allNodesSortedWithState[i]
        IN  /\ call' = [op |-> "ConsensusReady", cn |-> cn,
                        timestamp |-> cn.Timestamp + d]
            /\ ret' = ConsensusReady(cn, cn.Timestamp + d)
    /\ UNCHANGED <<registry, handshake, syncing, pushing, running>>

Next ==
    \/ StoreWriteNode
    \/ LoadConsensusNodes
    \/ CallNodesListWithoutState
    \/ CallConsensusThreshold
    \/ CallConsensusReady

Spec == Init /\ [][Next]_vars

\* who builds handshakes, for whom, and what the clocks read
HandshakeBuilders == {8, 9}
HandshakeRecipients == {1, 8}
LegacyBuilders == {2, 9}
BuildTimes == {Epoch + 10}
VerifyTimes == {Epoch + 6, Epoch + 13, Epoch + 14}
Timeouts == {0, 3}
\* the bytes the signature covers
SignedLength(kind) == IF kind = "legacy" THEN 40 ELSE 73

\* A node builds the handshake for a relayer id and sends it.
CallBuildAuthenticationMessage ==
    /\ \E k \in HandshakeBuilders, r \in HandshakeRecipients, now \in BuildTimes :
        /\ wire' = BuildAuthenticationMessage(k, IdBytes(r), now)
        /\ origin' = [kind |-> "relayer", by |-> k, to |-> r, at |-> now, flipped |-> <<>>]
        /\ call' = [op |-> "BuildAuthenticationMessage", relayerId |-> r]
        /\ ret' = "sent"
    /\ UNCHANGED <<registry, syncing, pushing, running>>

\* A peer of this node pings it with the legacy handshake.
CallBuildLegacyAuthenticationMessage ==
    /\ \E k \in LegacyBuilders, now \in BuildTimes :
        /\ wire' = BuildLegacyAuthenticationMessage(k, now)
        /\ origin' = [kind |-> "legacy", by |-> k, to |-> SelfKey, at |-> now,
                      flipped |-> <<>>]
        /\ call' = [op |-> "BuildLegacyAuthenticationMessage"]
        /\ ret' = "sent"
    /\ UNCHANGED <<registry, syncing, pushing, running>>

\* The network inverts one bit of the signed bytes of the message in flight.
Tamper ==
    /\ origin.kind # "none"
    /\ origin.flipped = <<>>
    /\ \E i \in 1 .. SignedLength(origin.kind), bit \in 0 .. 7 :
        /\ wire' = FlipBit(wire, i, bit)
        /\ origin' = [origin EXCEPT !.flipped = <<i, bit>>]
    /\ call' = [op |-> "Tamper"]
    /\ ret' = "sent"
    /\ UNCHANGED <<registry, syncing, pushing, running>>

CallAuthenticateAs ==
    /\ origin.kind # "none"
    /\ \E r \in HandshakeRecipients, timeoutSec \in Timeouts, now \in VerifyTimes :
        /\ timeoutSec = 0 => now = Epoch + 13      \* the clock is read under a timeout only
        /\ call' = [op |-> "AuthenticateAs", recipientId |-> r,
                    timeoutSec |-> timeoutSec, now |-> now]
        /\ ret' = AuthenticateAs(IdBytes(r), wire, timeoutSec, now)
    /\ UNCHANGED <<registry, handshake, syncing, pushing, running>>

CallAuthenticate ==
    /\ origin.kind # "none"
    /\ \E now \in VerifyTimes :
        /\ call' = [op |-> "Authenticate", now |-> now]
        /\ ret' = Authenticate(wire, now)
    /\ UNCHANGED <<registry, handshake, syncing, pushing, running>>

AuthNext ==
    \/ CallBuildAuthenticationMessage
    \/ CallBuildLegacyAuthenticationMessage
    \/ Tamper
    \/ CallAuthenticateAs
    \/ CallAuthenticate

AuthSpec == Init /\ [][AuthNext]_vars

-----------------------------------------------------------------------------
\* The sync-point tracker at work.

\* the node's final round, and the sync points peers report about it
FinalNumber == 100
SelfPoint(n, h) == [NodeId |-> SelfKey, Number |-> n, Hash |-> h]
OtherPoint(k) == [NodeId |-> k, Number |-> FinalNumber + 5, Hash |-> "other"]
ReportsOf(p) ==
    CASE p = 2 -> {<<OtherPoint(2), SelfPoint(FinalNumber - 2, "old")>>,
                   <<SelfPoint(FinalNumber - 2, "old"), SelfPoint(FinalNumber - 1, "old")>>}
      [] p = 3 -> {<<SelfPoint(FinalNumber, "old")>>}
      [] p = 4 -> {<<SelfPoint(FinalNumber + 1, "A")>>, <<SelfPoint(FinalNumber + 1, "B")>>}
      [] p = 5 -> {<<SelfPoint(FinalNumber, "old")>>, <<SelfPoint(FinalNumber + 2, "A")>>}
      [] OTHER -> {<<SelfPoint(FinalNumber, "old")>>}
P2PPeers == {2, 3, 4, 5, 8}
LegacyPeers == {4, 5, 6, 7}
RacingPeers == {2, 3}

\* the stores SetupNode may find: the genesis records and the record of node
\* 8, accepted or pledging one second later
SyncStores ==
    {GenesisRecords \cup {[Signer |-> 8, Timestamp |-> Epoch + 1, State |-> st]} :
        st \in {NodeStateAccepted, NodeStatePledging}}
\* the states BootChain may give the node's chain: none, or final round
\* FinalNumber with no cache round, an empty one, or one that started
\* CatchUpPeriod or a second less before Epoch + 20
CacheRounds ==
    {<<>>, <<[Empty |-> TRUE, Hash |-> "A", Start |-> Epoch]>>}
    \cup {<<[Empty |-> FALSE, Hash |-> "A", Start |-> Epoch + 20 - CatchUpPeriod + d]>> :
             d \in {0, 1}}
ChainStates ==
    {<<>>} \cup {<<[FinalRound |-> [Number |-> FinalNumber], CacheRound |-> c]>> :
                    c \in CacheRounds}
SyncTimes == {Epoch + 20, Epoch + 50000}

SyncInit ==
    /\ store \in SyncStores
    /\ allNodesSortedWithState = SortSlice({CNodeOf(n) : n \in store})
    /\ nodeStateSequences = buildNodeStateSequences(allNodesSortedWithState, FALSE)
    /\ acceptedNodeStateSequences = buildNodeStateSequences(allNodesSortedWithState, TRUE)
    /\ wire = <<>>
    /\ origin = [kind |-> "none"]
    /\ SyncPoints = EmptyMap
    /\ SyncPointsMap = EmptyMap
    /\ LegacySyncPoints = EmptyMap
    /\ LegacySyncPointsMap = EmptyMap
    /\ chain \in {[State |-> st] : st \in ChainStates}
    /\ updating = [u \in Updaters |-> Idle]
    /\ done = FALSE
    /\ pusher = PusherAtStart
    /\ loading = Idle
    /\ reading = Idle
    /\ boot = Booted
    /\ call = [op |-> "SetupNode"]
    /\ ret = "nil"

\* The transport delivers the sync points of a peer, one call at a time.
UpdateSyncPoint ==
    /\ \E peerId \in P2PPeers : \E points \in ReportsOf(peerId) :
        /\ SyncPoints' = SetPoints(SyncPoints, peerId, points, 1)
        /\ SyncPointsMap' = Map(SyncPoints')
    /\ call' = [op |-> "UpdateSyncPoint"]
    /\ ret' = "nil"
    /\ UNCHANGED <<registry, handshake, LegacySyncPoints, LegacySyncPointsMap,
                   chain, updating, pushing, running>>

\* The legacy transport does the same; its peers report in turn.
UpdateLegacySyncPoint ==
    /\ \E peerId \in LegacyPeers : \E points \in ReportsOf(6) \cup {<<OtherPoint(6)>>} :
        /\ peerId - 1 \in LegacyPeers => peerId - 1 \in DOMAIN LegacySyncPoints
        /\ LegacySyncPoints' = SetPoints(LegacySyncPoints, peerId, points, 1)
        /\ LegacySyncPointsMap' = Map(LegacySyncPoints')
    /\ call' = [op |-> "UpdateLegacySyncPoint"]
    /\ ret' = "nil"
    /\ UNCHANGED <<registry, handshake, SyncPoints, SyncPointsMap,
                   chain, updating, pushing, running>>

CallCheckBroadcastedToPeers ==
    /\ \E now \in SyncTimes :
        /\ call' = [op |-> "CheckBroadcastedToPeers", now |-> now]
        /\ ret' = [P2P |-> CheckBroadcastedToP2PPeers(now),
                   Legacy |-> CheckBroadcastedToLegacyPeers(now),
                   Peers |-> CheckBroadcastedToPeers(now)]
    /\ UNCHANGED <<registry, handshake, syncing, pushing, running>>

CallCheckCatchUpWithPeers ==
    /\ \E now \in SyncTimes :
        /\ call' = [op |-> "CheckCatchUpWithPeers", now |-> now]
        /\ ret' = [P2P |-> CheckCatchUpWithP2PPeers(now),
                   Legacy |-> CheckCatchUpWithLegacyPeers(now),
                   Peers |-> CheckCatchUpWithPeers(now)]
    /\ UNCHANGED <<registry, handshake, syncing, pushing, running>>

SyncNext ==
    \/ UpdateSyncPoint
    \/ UpdateLegacySyncPoint
    \/ CallCheckBroadcastedToPeers
    \/ CallCheckCatchUpWithPeers

SyncSpec == SyncInit /\ [][SyncNext]_vars

\* The same tracker on a registry that lost a genesis node: node 7 was
\* removed, and node 8 may have been accepted since.
SentinelStores ==
    {GenesisRecords \cup {[Signer |-> 7, Timestamp |-> Epoch + 1, State |-> NodeStateRemoved]}
        \cup extra :
        extra \in {{}, {[Signer |-> 8, Timestamp |-> Epoch + 1, State |-> NodeStateAccepted]}}}

SentinelInit ==
    /\ store \in SentinelStores
    /\ allNodesSortedWithState = SortSlice({CNodeOf(n) : n \in store})
    /\ nodeStateSequences = buildNodeStateSequences(allNodesSortedWithState, FALSE)
    /\ acceptedNodeStateSequences = buildNodeStateSequences(allNodesSortedWithState, TRUE)
    /\ wire = <<>>
    /\ origin = [kind |-> "none"]
    /\ SyncPoints = EmptyMap
    /\ SyncPointsMap = EmptyMap
    /\ LegacySyncPoints = EmptyMap
    /\ LegacySyncPointsMap = EmptyMap
    /\ chain \in {[State |-> st] : st \in ChainStates \ {<<>>}}
    /\ updating = [u \in Updaters |-> Idle]
    /\ done = FALSE
    /\ pusher = PusherAtStart
    /\ loading = Idle
    /\ reading = Idle
    /\ boot = Booted
    /\ call = [op |-> "SetupNode"]
    /\ ret = "nil"

SentinelSpec == SentinelInit /\ [][SyncNext]_vars

-----------------------------------------------------------------------------
\* The graph pusher.

\* go node.sendGraphToConcensusNodes(): the ticker is made
StartPusher ==
    /\ pusher.at = "idle"
    /\ pusher' = [pusher EXCEPT !.at = "list"]
    /\ call' = [op |-> "sendGraphToConcensusNodes"]
    /\ ret' = "nil"
    /\ UNCHANGED <<registry, handshake, syncing, done, running>>

\* the head of the loop: the accepted nodes now
PusherList ==
    /\ pusher.at = "list"
    /\ \E now \in SyncTimes : \E nodes \in {NodesListWithoutState(now, TRUE)} :
        pusher' = [pusher EXCEPT !.at = "send", !.i = 1,
                     !.nodes = [j \in DOMAIN nodes |-> nodes[j].IdForNetwork]]
    /\ UNCHANGED <<registry, handshake, syncing, done, running, call, ret>>

\* node.Peer.SendGraphMessage(cn.IdForNetwork)
PusherSend ==
    /\ pusher.at = "send"
    /\ pusher.i <= Len(pusher.nodes)
    /\ pusher' = [pusher EXCEPT !.i = @ + 1,
                     !.sent = IF @ < MaxGraphsSent THEN @ + 1 ELSE @]
    /\ UNCHANGED <<registry, handshake, syncing, done, running, call, ret>>

\* <-graphTicker.C after the last send: the ticker fires and the loop starts over
PusherTick ==
    /\ pusher.at = "send"
    /\ pusher.i > Len(pusher.nodes)
    /\ pusher' = [pusher EXCEPT !.at = "list"]
    /\ UNCHANGED <<registry, handshake, syncing, done, running, call, ret>>

\* the node is torn down: close(node.done)
Teardown ==
    /\ ~done
    /\ done' = TRUE
    /\ call' = [op |-> "Teardown"]
    /\ ret' = "nil"
    /\ UNCHANGED <<registry, handshake, syncing, pusher, running>>

PusherStep == StartPusher \/ PusherList \/ PusherSend \/ PusherTick

PusherNext ==
    \/ StartPusher
    \/ PusherList
    \/ PusherSend
    \/ PusherTick
    \/ Teardown

\* the goroutine is scheduled and the ticker keeps firing
PusherSpec == Init /\ [][PusherNext]_vars /\ WF_vars(PusherStep)

-----------------------------------------------------------------------------
\* UpdateSyncPoint called from several goroutines at once.  The steps of one
\* call: each Set under the write lock, the Map under the read lock, and the
\* store of its result into node.SyncPointsMap, which no lock covers.

\* a goroutine enters UpdateSyncPoint(peerId, points)
UpdateSyncPointEnter(u) ==
    /\ updating[u].pc = "idle"
    /\ \E peerId \in RacingPeers : \E points \in ReportsOf(peerId) :
        updating' = [updating EXCEPT ![u] =
                        [pc |-> "loop", peerId |-> peerId, points |-> points,
                         i |-> 1, m |-> EmptyMap]]
    /\ call' = [op |-> "UpdateSyncPoint"]
    /\ ret' = "running"
    /\ UNCHANGED <<registry, handshake, SyncPoints, SyncPointsMap,
                   LegacySyncPoints, LegacySyncPointsMap, chain, pushing, running>>

\* one turn of the loop: node.SyncPoints.Set(peerId, p) for a point of this chain
UpdateSyncPointSet(u) ==
    /\ updating[u].pc = "loop"
    /\ updating[u].i <= Len(updating[u].points)
    /\ SyncPoints' = SetPoints(SyncPoints, updating[u].peerId,
                               <<updating[u].points[updating[u].i]>>, 1)
    /\ updating' = [updating EXCEPT ![u].i = @ + 1]
    /\ UNCHANGED <<registry, handshake, SyncPointsMap, LegacySyncPoints,
                   LegacySyncPointsMap, chain, pushing, running, call, ret>>

\* after the loop: node.SyncPoints.Map() is evaluated
UpdateSyncPointMap(u) ==
    /\ updating[u].pc = "loop"
    /\ updating[u].i > Len(updating[u].points)
    /\ updating' = [updating EXCEPT ![u].pc = "store", ![u].m = Map(SyncPoints)]
    /\ UNCHANGED <<registry, handshake, SyncPoints, SyncPointsMap,
                   LegacySyncPoints, LegacySyncPointsMap, chain, pushing, running,
                   call, ret>>

\* node.SyncPointsMap = the map just made; the call returns
UpdateSyncPointStore(u) ==
    /\ updating[u].pc = "store"
    /\ SyncPointsMap' = updating[u].m
    /\ updating' = [updating EXCEPT ![u] = Idle]
    /\ call' = [op |-> "UpdateSyncPoint"]
    /\ ret' = "nil"
    /\ UNCHANGED <<registry, handshake, SyncPoints, LegacySyncPoints,
                   LegacySyncPointsMap, chain, pushing, running>>

RaceNext ==
    \E u \in Updaters :
        \/ UpdateSyncPointEnter(u)
        \/ UpdateSyncPointSet(u)
        \/ UpdateSyncPointMap(u)
        \/ UpdateSyncPointStore(u)

RaceSpec == Init /\ [][RaceNext]_vars

-----------------------------------------------------------------------------
\* LoadConsensusNodes running while CheckBroadcastedToP2PPeers runs in another
\* goroutine.  No lock covers the three fields of the registry: the steps of
\* the reload are its three assignments, the steps of the check are its reads
\* of node.nodeStateSequences (in ConsensusThreshold) and of
\* node.acceptedNodeStateSequences (in NodesListWithoutState).

\* the clock of the calls, long after every record has settled
ReloadTimes == {Epoch + 50000}
\* the snapshot the transport has published: these peers have reported the
\* final round
ReportedPeers == {2, 3, 4, 8}
ReportedAtFinal == [k \in ReportedPeers |-> SelfPoint(FinalNumber, "old")]

ReloadInit ==
    /\ store = GenesisRecords
    /\ allNodesSortedWithState = SortSlice({CNodeOf(n) : n \in GenesisRecords})
    /\ nodeStateSequences = buildNodeStateSequences(allNodesSortedWithState, FALSE)
    /\ acceptedNodeStateSequences = buildNodeStateSequences(allNodesSortedWithState, TRUE)
    /\ wire = <<>>
    /\ origin = [kind |-> "none"]
    /\ SyncPoints = ReportedAtFinal
    /\ SyncPointsMap = ReportedAtFinal
    /\ LegacySyncPoints = EmptyMap
    /\ LegacySyncPointsMap = EmptyMap
    /\ chain \in {[State |-> st] : st \in
                    {<<>>, <<[FinalRound |-> [Number |-> FinalNumber], CacheRound |-> <<>>]>>}}
    /\ updating = [u \in Updaters |-> Idle]
    /\ done = FALSE
    /\ pusher = PusherAtStart
    /\ loading = Idle
    /\ reading = Idle
    /\ boot = Booted
    /\ call = [op |-> "SetupNode"]
    /\ ret = "nil"

\* LoadConsensusNodes reads the store, sorts and copies the records
LoadRead ==
    /\ loading.pc = "idle"
    /\ \E now \in {Epoch + 1} :
        \E cnodes \in {SortSlice({CNodeOf(n) : n \in ReadAllNodes(now * 2)})} :
            loading' = [pc |-> "all", cnodes |-> cnodes]
    /\ call' = [op |-> "LoadConsensusNodes"]
    /\ ret' = "running"
    /\ UNCHANGED <<registry, handshake, syncing, pushing, reading, boot>>

\* node.allNodesSortedWithState = cnodes
LoadSetAll ==
    /\ loading.pc = "all"
    /\ allNodesSortedWithState' = loading.cnodes
    /\ loading' = [loading EXCEPT !.pc = "full"]
    /\ UNCHANGED <<store, nodeStateSequences, acceptedNodeStateSequences, handshake,
                   syncing, pushing, reading, boot, call, ret>>

\* node.nodeStateSequences = node.buildNodeStateSequences(cnodes, false)
LoadSetFull ==
    /\ loading.pc = "full"
    /\ nodeStateSequences' = buildNodeStateSequences(allNodesSortedWithState, FALSE)
    /\ loading' = [loading EXCEPT !.pc = "accepted"]
    /\ UNCHANGED <<store, allNodesSortedWithState, acceptedNodeStateSequences, handshake,
                   syncing, pushing, reading, boot, call, ret>>

\* node.acceptedNodeStateSequences = node.buildNodeStateSequences(cnodes, true);
\* the call returns
LoadSetAccepted ==
    /\ loading.pc = "accepted"
    /\ acceptedNodeStateSequences' = buildNodeStateSequences(allNodesSortedWithState, TRUE)
    /\ loading' = Idle
    /\ call' = [op |-> "LoadConsensusNodes"]
    /\ ret' = "nil"
    /\ UNCHANGED <<store, allNodesSortedWithState, nodeStateSequences, handshake,
                   syncing, pushing, reading, boot>>

\* CheckBroadcastedToP2PPeers reads the snapshot and the chain state, and
\* returns false at once when either is missing
CheckEnter ==
    /\ reading.pc \in {"idle", "returned"}
    /\ \E now \in ReloadTimes :
        reading' = IF DOMAIN SyncPointsMap = {} \/ chain.State = <<>>
                   THEN [pc |-> "returned", now |-> now, read |-> FALSE, result |-> FALSE]
                   ELSE [pc |-> "threshold", now |-> now, spm |-> SyncPointsMap,
                         final |-> chain.State[1].FinalRound.Number]
    /\ call' = [op |-> "CheckBroadcastedToP2PPeers"]
    /\ ret' = "running"
    /\ UNCHANGED <<registry, handshake, syncing, pushing, loading, boot>>

\* threshold := node.ConsensusThreshold(now, false), which reads
\* node.nodeStateSequences
CheckThreshold ==
    /\ reading.pc = "threshold"
    /\ reading' = [pc |-> "list", now |-> reading.now, spm |-> reading.spm,
                   final |-> reading.final,
                   threshold |-> ConsensusThreshold(reading.now, FALSE),
                   full |-> nodeStateSequences]
    /\ UNCHANGED <<registry, handshake, syncing, pushing, loading, boot, call, ret>>

\* nodes := node.NodesListWithoutState(now, true), which reads
\* node.acceptedNodeStateSequences; the loop counts and the call returns
CheckList ==
    /\ reading.pc = "list"
    /\ \E nodes \in {NodesListWithoutState(reading.now, TRUE)} :
        \E count \in {1 + Cardinality({i \in DOMAIN nodes :
                        /\ nodes[i].IdForNetwork \in DOMAIN reading.spm
                        /\ reading.spm[nodes[i].IdForNetwork].Number + 1 >= reading.final})} :
            /\ reading' = [pc |-> "returned", now |-> reading.now, read |-> TRUE,
                           result |-> (count >= reading.threshold),
                           full |-> reading.full,
                           accepted |-> acceptedNodeStateSequences]
            /\ ret' = (count >= reading.threshold)
    /\ call' = [op |-> "CheckBroadcastedToP2PPeers"]
    /\ UNCHANGED <<registry, handshake, syncing, pushing, loading, boot>>

\* the ledger persists a state change while the node runs
ReloadStoreWriteNode ==
    /\ StoreWriteNode
    /\ loading.pc = "idle"

ReloadNext ==
    \/ ReloadStoreWriteNode
    \/ LoadRead
    \/ LoadSetAll
    \/ LoadSetFull
    \/ LoadSetAccepted
    \/ CheckEnter
    \/ CheckThreshold
    \/ CheckList

ReloadSpec == ReloadInit /\ [][ReloadNext]_vars

-----------------------------------------------------------------------------
\* SetupNode, statement by statement.  boot.pc is the step about to run;
\* boot.ran lists the steps that have run; what the store, the genesis file
\* and the graph hold decides how each step ends.

\* the stores a booting node may find
BootStores == {GenesisRecords} \cup SyncStores \cup SentinelStores
\* the batch of the last mint distribution
MintBatches == {0, 1}
\* the graph entries ValidateGraphEntries may count
MaxEntries == 2

\* SetupNode starts: the Node value is made, nothing is loaded yet
BootInit ==
    /\ store \in BootStores
    /\ allNodesSortedWithState = <<>>
    /\ nodeStateSequences = <<>>
    /\ acceptedNodeStateSequences = <<>>
    /\ wire = <<>>
    /\ origin = [kind |-> "none"]
    /\ SyncPoints = EmptyMap
    /\ SyncPointsMap = EmptyMap
    /\ LegacySyncPoints = EmptyMap
    /\ LegacySyncPointsMap = EmptyMap
    /\ chain = [State |-> <<>>]
    /\ updating = [u \in Updaters |-> Idle]
    /\ done = FALSE
    /\ pusher = PusherAtStart
    /\ loading = Idle
    /\ reading = Idle
    /\ boot = [pc |-> 1, ran |-> <<>>, result |-> "none"]
    /\ call = [op |-> "SetupNode"]
    /\ ret = "running"

AtStep(name) == boot.result = "none" /\ boot.pc \in DOMAIN BootSteps /\ BootSteps[boot.pc] = name
\* the step has run and SetupNode goes on to the next statement
StepDone(name) == [boot EXCEPT !.pc = @ + 1, !.ran = Append(@, name)]
\* the step has run and SetupNode returns nil and the error
StepFailed(name) ==
    [boot EXCEPT !.pc = "returned", !.ran = Append(@, name), !.result = "error"]

\* the test after ValidateGraphEntries: an error, or any invalid entry
ValidationFailsOnErrorOnly(err, invalid) == err
ValidationFails(err, invalid) == err \/ invalid > 0

\* a step that returns no error
BootPlainStep(name) ==
    /\ AtStep(name)
    /\ boot' = StepDone(name)
    /\ UNCHANGED <<registry, handshake, syncing, pushing, loading, reading, call, ret>>

\* a step whose error makes SetupNode return
BootFallibleStep(name) ==
    /\ AtStep(name)
    /\ \E err \in BOOLEAN :
        IF err
        THEN /\ boot' = StepFailed(name)
             /\ ret' = name
             /\ UNCHANGED call
        ELSE /\ boot' = StepDone(name)
             /\ UNCHANGED <<call, ret>>
    /\ UNCHANGED <<registry, handshake, syncing, pushing, loading, reading>>

BootLoadNodeConfig == BootPlainStep("loadNodeConfig")

\* mint := node.lastMintDistribution(); node.LastMint = mint.Batch
BootLastMint ==
    /\ AtStep("lastMintDistribution")
    /\ \E batch \in MintBatches :
        boot' = [pc |-> boot.pc + 1, ran |-> Append(boot.ran, "lastMintDistribution"),
                 result |-> "none", LastMint |-> batch]
    /\ UNCHANGED <<registry, handshake, syncing, pushing, loading, reading, call, ret>>

BootReadGenesis == BootFallibleStep("ReadGenesis")
BootLoadGenesis == BootFallibleStep("LoadGenesis")
BootTopologyCounter == BootPlainStep("getTopologyCounter")

\* total, invalid, err := ValidateGraphEntries(networkId, 10)
BootValidateGraph ==
    /\ AtStep("ValidateGraphEntries")
    /\ \E err \in BOOLEAN, total \in 0 .. MaxEntries :
        \E invalid \in 0 .. total :
            /\ err => total = 0 /\ invalid = 0
            /\ IF ValidationFails(err, invalid)
               THEN /\ boot' = [pc |-> "returned",
                                ran |-> Append(boot.ran, "ValidateGraphEntries"),
                                result |-> "error", LastMint |-> boot.LastMint,
                                validation |-> [err |-> err, total |-> total,
                                                invalid |-> invalid]]
                    /\ ret' = "ValidateGraphEntries"
                    /\ UNCHANGED call
               ELSE /\ boot' = [pc |-> boot.pc + 1,
                                ran |-> Append(boot.ran, "ValidateGraphEntries"),
                                result |-> "none", LastMint |-> boot.LastMint,
                                validation |-> [err |-> err, total |-> total,
                                                invalid |-> invalid]]
                    /\ UNCHANGED <<call, ret>>
    /\ UNCHANGED <<registry, handshake, syncing, pushing, loading, reading>>

\* err = node.LoadConsensusNodes(), which returns nil
BootLoadConsensusNodes ==
    /\ AtStep("LoadConsensusNodes")
    /\ \E now \in {Epoch + 1} :
        Loaded(ReadAllNodes(now * 2))
    /\ boot' = StepDone("LoadConsensusNodes")
    /\ UNCHANGED <<store, handshake, syncing, pushing, loading, reading, call, ret>>

BootLoadAllChains == BootFallibleStep("LoadAllChainsAndGraphTimestamp")

\* node.chain = node.BootChain(node.IdForNetwork); SetupNode returns the node
BootChain ==
    /\ AtStep("BootChain")
    /\ chain' \in {[State |-> st] : st \in ChainStates}
    /\ boot' = [StepDone("BootChain") EXCEPT !.pc = "returned", !.result = "node"]
    /\ ret' = "nil"
    /\ UNCHANGED <<registry, handshake, SyncPoints, SyncPointsMap, LegacySyncPoints,
                   LegacySyncPointsMap, updating, pushing, loading, reading, call>>

BootNext ==
    \/ BootLoadNodeConfig
    \/ BootLastMint
    \/ BootReadGenesis
    \/ BootLoadGenesis
    \/ BootTopologyCounter
    \/ BootValidateGraph
    \/ BootLoadConsensusNodes
    \/ BootLoadAllChains
    \/ BootChain

BootSpec == BootInit /\ [][BootNext]_vars

-----------------------------------------------------------------------------
\* What the claims speak of, read off the registry itself.

RegistryEntries == {allNodesSortedWithState[i] : i \in DOMAIN allNodesSortedWithState}
EntriesBefore(T) == {n \in RegistryEntries : n.Timestamp < T}
IdsBefore(T) == {n.IdForNetwork : n \in EntriesBefore(T)}
\* the latest registry entry of id before T
LatestBefore(id, T) ==
    CHOOSE n \in EntriesBefore(T) :
        /\ n.IdForNetwork = id
        /\ \A m \in EntriesBefore(T) : m.IdForNetwork = id => m.Timestamp <= n.Timestamp

\* ids whose latest state before T is Accepted and that count
AcceptedCounted(T) ==
    {id \in IdsBefore(T) :
        /\ LatestBefore(id, T).State = NodeStateAccepted
        /\ \/ id \in GenesisKeys
           \/ LatestBefore(id, T).Timestamp + ThresholdGap < T}
\* ids whose latest state before T is Pledging and that are mature at T
PledgingMature(T) ==
    {id \in IdsBefore(T) :
        /\ LatestBefore(id, T).State = NodeStatePledging
        /\ LatestBefore(id, T).Timestamp + PledgeMaturity < T}
CountedBase(T, final) ==
    Cardinality(AcceptedCounted(T)) + (IF final THEN 0 ELSE Cardinality(PledgingMature(T)))

IsCall(op) == call.op = op

\* the quorum of a base: 2/3 of it plus one, or the sentinel
QuorumOf(base) == IF base < 7 THEN 1000 ELSE ((base * 2) \div 3) + 1

\* a before b in the canonical order (timestamp, hex of the id)
CanonicalBefore(a, b) ==
    \/ a.Timestamp < b.Timestamp
    \/ /\ a.Timestamp = b.Timestamp
       /\ StringLess(IdString[a.IdForNetwork], IdString[b.IdForNetwork])
CanonicallySorted(nodes) ==
    \A i \in 1 .. Len(nodes) - 1 : CanonicalBefore(nodes[i], nodes[i + 1])
ActiveState(st) == st \in {NodeStateAccepted, NodeStatePledging}

\* C1: ConsensusThreshold(T, final) returns the sentinel 1000 when the counted
\* base is below KernelMinimumNodesCount and base*2/3 + 1 (integer division)
\* otherwise, 5 for a base of 7; it returns nothing else.
C1_ThresholdOfCountedBase ==
    IsCall("ConsensusThreshold") =>
        LET base == CountedBase(call.timestamp, call.final)
        IN  /\ base < 7 => ret = 1000
            /\ base >= 7 => ret = ((base * 2) \div 3) + 1
            /\ base = 7 => ret = 5
C1_Witness ==
    /\ IsCall("ConsensusThreshold")
    /\ CountedBase(call.timestamp, call.final) = 7
    /\ AcceptedCounted(call.timestamp) = GenesisKeys
    /\ ret = 5

\* C2: a node whose latest state before T is Pledging counts iff final is
\* false and cn.timestamp + (KernelNodeAcceptPeriodMinimum - 3 * gap) < T; so
\* final = true never counts it, and with 7 genesis accepted nodes and one
\* pledger at T0 the result is 5 while the pledger is immature, 6 at the
\* first T past the bound with final = false and 5 there with final = true.
SevenGenesisAndOnePledger(T0) ==
    /\ Len(allNodesSortedWithState) = 8
    /\ \A k \in GenesisKeys :
        \E n \in RegistryEntries :
            n.IdForNetwork = k /\ n.State = NodeStateAccepted /\ n.Timestamp = Epoch
    /\ \E n \in RegistryEntries :
        n.IdForNetwork \notin GenesisKeys /\ n.State = NodeStatePledging /\ n.Timestamp = T0
C2_PledgingCountedWhenMatureAndNotFinal ==
    IsCall("ConsensusThreshold") =>
        LET T == call.timestamp
            accepted == Cardinality(AcceptedCounted(T))
            pledging == Cardinality(PledgingMature(T))
        IN  /\ call.final => ret = QuorumOf(accepted)
            /\ ~call.final => ret = QuorumOf(accepted + pledging)
            /\ \A T0 \in EventTimes :
                SevenGenesisAndOnePledger(T0) /\ T > T0 /\ T > Epoch =>
                    /\ T <= T0 + PledgeMaturity => ret = 5
                    /\ T = T0 + PledgeMaturity + 1 /\ ~call.final => ret = 6
                    /\ T = T0 + PledgeMaturity + 1 /\ call.final => ret = 5
C2_Witness ==
    /\ IsCall("ConsensusThreshold")
    /\ \E T0 \in EventTimes :
        /\ SevenGenesisAndOnePledger(T0)
        /\ call.timestamp = T0 + PledgeMaturity + 1
    /\ ~call.final
    /\ ret = 6

\* C3: a node whose latest state before T is Accepted counts iff it is a
\* genesis node or cn.timestamp + gap < T, whatever the final flag; nodes
\* whose latest state is Removed, Cancelled or Resigning never count.
C3_AcceptedCountedWhenGenesisOrSettled ==
    IsCall("ConsensusThreshold") =>
        LET T == call.timestamp
            counted == {id \in IdsBefore(T) :
                          /\ LatestBefore(id, T).State = NodeStateAccepted
                          /\ \/ id \in GenesisKeys
                             \/ LatestBefore(id, T).Timestamp + ThresholdGap < T}
        IN  (\A id \in IdsBefore(T) : LatestBefore(id, T).State # NodeStatePledging)
                => ret = QuorumOf(Cardinality(counted))
C3_Witness ==
    /\ IsCall("ConsensusThreshold")
    /\ \E id \in IdsBefore(call.timestamp) \ GenesisKeys :
        /\ LatestBefore(id, call.timestamp).State = NodeStateAccepted
        /\ call.timestamp = LatestBefore(id, call.timestamp).Timestamp + ThresholdGap + 1
    /\ call.final
    /\ ret = 6

\* C4: ConsensusReady(cn, T) is false unless cn is Accepted; true for an
\* Accepted genesis node at any T; for another Accepted node true iff
\* cn.Timestamp + KernelNodeAcceptPeriodMinimum < T: false at exactly
\* T0 + KernelNodeAcceptPeriodMinimum, true one later.
C4_ConsensusReadyRule ==
    IsCall("ConsensusReady") =>
        LET cn == call.cn
            T == call.timestamp
        IN  /\ cn.State # NodeStateAccepted => ret = FALSE
            /\ cn.State = NodeStateAccepted /\ cn.IdForNetwork \in GenesisKeys => ret = TRUE
            /\ cn.State = NodeStateAccepted /\ cn.IdForNetwork \notin GenesisKeys =>
                /\ ret = (cn.Timestamp + KernelNodeAcceptPeriodMinimum < T)
                /\ T = cn.Timestamp + KernelNodeAcceptPeriodMinimum => ret = FALSE
                /\ T = cn.Timestamp + KernelNodeAcceptPeriodMinimum + 1 => ret = TRUE
C4_Witness ==
    /\ IsCall("ConsensusReady")
    /\ call.cn.State = NodeStateAccepted
    /\ call.cn.IdForNetwork \notin GenesisKeys
    /\ call.timestamp = call.cn.Timestamp + KernelNodeAcceptPeriodMinimum + 1
    /\ ret = TRUE

\* C5: the list NodesListWithoutState(T, acceptedOnly) returns holds each id
\* at most once, and only ids with a registry entry of timestamp < T.
C5_ListIdsUniqueAndBeforeThreshold ==
    IsCall("NodesListWithoutState") =>
        /\ \A i, j \in DOMAIN ret : ret[i].IdForNetwork = ret[j].IdForNetwork => i = j
        /\ \A i \in DOMAIN ret :
            \E n \in RegistryEntries :
                n.IdForNetwork = ret[i].IdForNetwork /\ n.Timestamp < call.threshold
C5_Witness ==
    /\ IsCall("NodesListWithoutState")
    /\ \E i \in DOMAIN ret :
        Cardinality({n \in EntriesBefore(call.threshold) :
                        n.IdForNetwork = ret[i].IdForNetwork}) = 2

\* C6: in a returned list ConsensusIndex is strictly increasing over the
\* Accepted and Pledging entries and is each such entry's 0-based position
\* among them; the other entries do not advance the counter.
C6_ConsensusIndexDenseOverActive ==
    IsCall("NodesListWithoutState") =>
        /\ \A i \in DOMAIN ret :
            ActiveState(ret[i].State) =>
                ret[i].ConsensusIndex =
                    Cardinality({j \in 1 .. i - 1 : ActiveState(ret[j].State)})
        /\ \A i, j \in DOMAIN ret :
            i < j /\ ActiveState(ret[i].State) /\ ActiveState(ret[j].State) =>
                ret[i].ConsensusIndex < ret[j].ConsensusIndex
C6_Witness ==
    /\ IsCall("NodesListWithoutState")
    /\ \E i, j \in DOMAIN ret :
        i < j /\ ~ActiveState(ret[i].State) /\ ActiveState(ret[j].State)

\* C7: the registry LoadConsensusNodes builds and every list
\* NodesListWithoutState returns are in canonical order (timestamp, then hex
\* of the id, strictly); with 7 accepted nodes the accepted-only list has 7
\* entries in that order with ConsensusIndex 0..6.
C7_CanonicalOrder ==
    /\ CanonicallySorted(allNodesSortedWithState)
    /\ \A i \in DOMAIN nodeStateSequences :
        CanonicallySorted(nodeStateSequences[i].NodesWithoutState)
    /\ \A i \in DOMAIN acceptedNodeStateSequences :
        CanonicallySorted(acceptedNodeStateSequences[i].NodesWithoutState)
    /\ IsCall("NodesListWithoutState") =>
        /\ CanonicallySorted(ret)
        /\ (/\ call.acceptedOnly
            /\ Cardinality({id \in IdsBefore(call.threshold) :
                    LatestBefore(id, call.threshold).State = NodeStateAccepted}) = 7)
            => /\ Len(ret) = 7
               /\ \A i \in 1 .. 7 : ret[i].ConsensusIndex = i - 1
C7_Witness ==
    /\ IsCall("NodesListWithoutState")
    /\ call.acceptedOnly
    /\ Len(allNodesSortedWithState) = 8
    /\ Len(ret) = 7
    /\ \A i \in 1 .. 7 : ret[i].ConsensusIndex = i - 1
    /\ \E i \in 1 .. 6 : ret[i].IdForNetwork < ret[i + 1].IdForNetwork
    /\ \E i \in 1 .. 6 : ret[i].IdForNetwork > ret[i + 1].IdForNetwork

-----------------------------------------------------------------------------
\* What the handshake claims speak of.

\* the message in flight is the new handshake as its builder made it
IntactHandshake == origin.kind = "relayer" /\ origin.flipped = <<>>
\* the message in flight is the new handshake with one signed bit inverted
FlippedHandshake == origin.kind = "relayer" /\ origin.flipped # <<>>
\* the call is AuthenticateAs by the recipient the message was built for
ByItsRecipient == IsCall("AuthenticateAs") /\ call.recipientId = origin.to
\* the message as built passes this call: its recipient is not its builder
\* and its timestamp is inside the timeout
ValidAsBuilt ==
    /\ ByItsRecipient
    /\ origin.to # origin.by
    /\ call.timeoutSec > 0 =>
        /\ call.now - origin.at <= call.timeoutSec
        /\ origin.at - call.now <= call.timeoutSec
TokenOfBuilder ==
    /\ ret.err = "nil"
    /\ ret.token.PeerId = IdBytes(origin.by)
    /\ ret.token.IsRelayer = (origin.by \in RelayerKeys)

\* C8 as stated: for every recipient id R, AuthenticateAs(R,
\* BuildAuthenticationMessage(R), no timeout) succeeds with a token that
\* carries the builder's id and relayer flag.
C8_RoundTripEveryRecipient ==
    (IntactHandshake /\ ByItsRecipient /\ call.timeoutSec = 0) => TokenOfBuilder

\* C8: for every recipient id R other than the building node's own id,
\* AuthenticateAs(R, BuildAuthenticationMessage(R), no timeout) succeeds with
\* a token whose PeerId is the builder's IdForNetwork and whose IsRelayer is
\* the builder's relayer flag; for R the builder's own id it fails with the
\* "peer is self" error.
C8_RoundTripOtherRecipient ==
    (IntactHandshake /\ ByItsRecipient /\ call.timeoutSec = 0) =>
        IF origin.to # origin.by THEN TokenOfBuilder /\ ret.token.Data = wire
        ELSE ret = AuthError("peer is self")

C8_Witness ==
    /\ IntactHandshake /\ ByItsRecipient /\ call.timeoutSec = 0
    /\ origin.by \in RelayerKeys
    /\ origin.to # origin.by
    /\ ret.err = "nil"
    /\ ret.token.IsRelayer
    /\ ret.token.PeerId = IdBytes(9)

\* C9 as stated: a single-bit flip in the first 73 bytes of a valid message
\* makes AuthenticateAs fail with the bad-signature error and no other.
C9_AnyFlipIsBadSignature ==
    (FlippedHandshake /\ ValidAsBuilt) => ret = AuthError("signature invalid")

\* C9: a single-bit flip in the first 73 bytes of a valid message makes
\* AuthenticateAs fail, never succeed.  The error is "not for me" when the
\* bit is in the recipient id (bytes 9..40), "timeout" when the bit is in
\* the timestamp and moves it outside a timeout that applies, and
\* "signature invalid" in every other case.
C9_FlipFailsByField ==
    (FlippedHandshake /\ ValidAsBuilt) =>
        /\ ret.err # "nil"
        /\ ret = AuthError(
             IF origin.flipped[1] \in 9 .. 40 THEN "not for me"
             ELSE IF /\ origin.flipped[1] <= 8
                     /\ call.timeoutSec > 0
                     /\ AbsDiffExceeds(call.now, SubSeq(wire, 1, 8), call.timeoutSec)
                  THEN "timeout"
                  ELSE "signature invalid")

C9_Witness ==
    /\ FlippedHandshake /\ ValidAsBuilt
    /\ origin.flipped[1] \in 41 .. 72
    /\ call.timeoutSec = 3
    /\ ret = AuthError("signature invalid")

\* C10: the legacy Authenticate answers a message of at least 104 bytes with
\* the timeout error iff now - ts > 3 seconds; a legacy message as a peer
\* built it at now - 3 s or later verifies and returns the signer's peer id
\* and the listener that trails the signature.
C10_LegacyTimeoutAfterThreeSeconds ==
    IsCall("Authenticate") =>
        /\ (Len(wire) >= 104 /\ U64Fits(SubSeq(wire, 1, 8))) =>
              (ret = AuthError("timeout")
                 <=> call.now - Uint64(SubSeq(wire, 1, 8)) > 3)
        /\ (origin.kind = "legacy" /\ origin.flipped = <<>>) =>
              IF call.now - origin.at > 3 THEN ret = AuthError("timeout")
              ELSE /\ ret.err = "nil"
                   /\ ret.peerId = IdBytes(origin.by)
                   /\ ret.listener = ListenerOf(origin.by)

C10_Witness ==
    /\ IsCall("Authenticate")
    /\ origin.kind = "legacy" /\ origin.flipped = <<>>
    /\ call.now - origin.at = 3
    /\ ret.err = "nil"
    /\ ret.peerId = IdBytes(2)
    /\ ret.listener = <<58, 50>>

-----------------------------------------------------------------------------
\* What the sync-point claims speak of.

\* ids whose latest registry entry before T is Accepted
AcceptedAt(T) == {id \in IdsBefore(T) : LatestBefore(id, T).State = NodeStateAccepted}
StatePresent == chain.State # <<>>
FinalOfChain == chain.State[1].FinalRound.Number
\* the accepted nodes with a sync point in spm, and those of them the
\* broadcast check counts
Reporting(spm, T) == AcceptedAt(T) \cap DOMAIN spm
BroadcastCounted(spm, T) == {id \in Reporting(spm, T) : spm[id].Number + 1 >= FinalOfChain}
\* the local cache round, projected as final, agrees with the remote point
\* and is old enough at T
CacheAgrees(remote, T) ==
    /\ chain.State[1].CacheRound # <<>>
    /\ ~chain.State[1].CacheRound[1].Empty
    /\ chain.State[1].CacheRound[1].Hash = remote.Hash
    /\ chain.State[1].CacheRound[1].Start + SnapshotRoundGap * 100 <= T
BroadcastedBySpec(spm, T) ==
    1 + Cardinality(BroadcastCounted(spm, T)) >= QuorumOf(CountedBase(T, FALSE))
CaughtUpBySpec(spm, T) ==
    /\ \A id \in Reporting(spm, T) : spm[id].Number <= FinalOfChain + 1
    /\ \A id \in Reporting(spm, T) :
          spm[id].Number = FinalOfChain + 1 => CacheAgrees(spm[id], T)
    /\ 1 + Cardinality(Reporting(spm, T)) >= QuorumOf(CountedBase(T, FALSE))
IsSyncCheck == IsCall("CheckBroadcastedToPeers") \/ IsCall("CheckCatchUpWithPeers")

\* C11: in each transport generation the broadcast check and the catch-up
\* check are false whenever the published snapshot is empty or the chain
\* state is absent, and the checks over both generations are false while both
\* snapshots are empty.
C11_FalseWithoutSnapshotOrState ==
    IsSyncCheck =>
        /\ (DOMAIN SyncPointsMap = {} \/ ~StatePresent) => ~ret.P2P
        /\ (DOMAIN LegacySyncPointsMap = {} \/ ~StatePresent) => ~ret.Legacy
        /\ (~StatePresent \/ (DOMAIN SyncPointsMap = {} /\ DOMAIN LegacySyncPointsMap = {}))
              => ~ret.Peers

C11_Witness ==
    /\ IsCall("CheckBroadcastedToPeers")
    /\ ~StatePresent
    /\ Cardinality(DOMAIN SyncPointsMap) = 5
    /\ Cardinality(DOMAIN LegacySyncPointsMap) = 4
    /\ ~ret.Peers

\* C12: with a non-empty snapshot and a chain state, the broadcast check of a
\* generation is true iff 1 + the number of nodes whose latest state before
\* now is Accepted and whose sync point in the snapshot has Number + 1 >=
\* the final round number is at least ConsensusThreshold(now, false); the
\* sync points of other peers are not counted.
C12_BroadcastCountsAcceptedNearFinal ==
    (IsCall("CheckBroadcastedToPeers") /\ StatePresent) =>
        /\ DOMAIN SyncPointsMap # {} =>
              (ret.P2P <=> BroadcastedBySpec(SyncPointsMap, call.now))
        /\ DOMAIN LegacySyncPointsMap # {} =>
              (ret.Legacy <=> BroadcastedBySpec(LegacySyncPointsMap, call.now))

C12_Witness ==
    /\ IsCall("CheckBroadcastedToPeers") /\ StatePresent
    /\ DOMAIN SyncPointsMap = {2, 3, 4, 5, 8}
    /\ SyncPointsMap[2].Number = FinalNumber - 1
    /\ 8 \notin AcceptedAt(call.now)
    /\ QuorumOf(CountedBase(call.now, FALSE)) = 5
    /\ ret.P2P

\* C13: with a non-empty snapshot and a chain state, the catch-up check of a
\* generation is true iff no accepted node with a sync point is more than one
\* round ahead of the final round, every one that is one round ahead agrees
\* with the local cache round (as-final projection present, same hash, start
\* + SnapshotRoundGap*100 <= now), and 1 + the number of accepted nodes with
\* a sync point is at least ConsensusThreshold(now, false).
C13_CatchUpRule ==
    (IsCall("CheckCatchUpWithPeers") /\ StatePresent) =>
        /\ DOMAIN SyncPointsMap # {} =>
              (ret.P2P <=> CaughtUpBySpec(SyncPointsMap, call.now))
        /\ DOMAIN LegacySyncPointsMap # {} =>
              (ret.Legacy <=> CaughtUpBySpec(LegacySyncPointsMap, call.now))

C13_Witness ==
    /\ IsCall("CheckCatchUpWithPeers") /\ StatePresent
    /\ DOMAIN SyncPointsMap = {2, 3, 4, 5, 8}
    /\ SyncPointsMap[5].Number = FinalNumber + 2
    /\ SyncPointsMap[4].Number = FinalNumber + 1
    /\ CacheAgrees(SyncPointsMap[4], call.now)
    /\ 1 + Cardinality(Reporting(SyncPointsMap, call.now))
          >= QuorumOf(CountedBase(call.now, FALSE))
    /\ ~ret.P2P

\* the graph pusher has returned
PusherReturned == pusher.at = "returned"
\* the graph pusher is sending after the done signal
SendsAfterDone == done /\ pusher.at = "send" /\ pusher.i <= Len(pusher.nodes)

\* C14: once done is closed, sendGraphToConcensusNodes eventually returns.
C14_PusherReturnsAfterDone == done ~> PusherReturned

\* C14, the weaker reading: once done is closed, the pusher eventually stops
\* sending graph messages for good.
C14_PusherStopsSendingAfterDone == done ~> [](~SendsAfterDone)

\* no UpdateSyncPoint call is in progress
AllUpdatesCompleted == \A u \in Updaters : updating[u] = Idle

\* C15: once all concurrent UpdateSyncPoint calls have completed, the
\* published snapshot equals the content of the sync map: each peer mapped to
\* the sync point of its last Set, no completed Set missing.
C15_SnapshotCurrentWhenQuiet == AllUpdatesCompleted => SyncPointsMap = SyncPoints

SyncMaps == <<SyncPoints, SyncPointsMap, LegacySyncPoints, LegacySyncPointsMap>>
OnlyOwnChain(m) == \A k \in DOMAIN m : m[k].NodeId = SelfKey
KeysKept ==
    /\ DOMAIN SyncPoints \subseteq DOMAIN SyncPoints'
    /\ DOMAIN SyncPointsMap \subseteq DOMAIN SyncPointsMap'
    /\ DOMAIN LegacySyncPoints \subseteq DOMAIN LegacySyncPoints'
    /\ DOMAIN LegacySyncPointsMap \subseteq DOMAIN LegacySyncPointsMap'
GenerationsApart ==
    /\ call'.op = "UpdateSyncPoint" => UNCHANGED <<LegacySyncPoints, LegacySyncPointsMap>>
    /\ call'.op = "UpdateLegacySyncPoint" => UNCHANGED <<SyncPoints, SyncPointsMap>>

\* C16: after any sequence of UpdateSyncPoint and UpdateLegacySyncPoint
\* calls every entry of both sync maps and both published snapshots is a
\* point of this node's own chain; no step removes a peer's entry; and an
\* update of one generation leaves the other generation's map and snapshot
\* as they were.
C16_OwnChainOnlyNeverDeleted ==
    /\ [](\A g \in 1 .. 4 : OnlyOwnChain(SyncMaps[g]))
    /\ [][KeysKept /\ GenerationsApart]_vars

C16_Witness ==
    /\ IsCall("UpdateLegacySyncPoint")
    /\ DOMAIN LegacySyncPoints = {4}
    /\ DOMAIN SyncPoints = {2, 3}
    /\ SyncPoints[2].Number = FinalNumber - 2
    /\ SyncPointsMap = SyncPoints

ListedIds == {ret[i].IdForNetwork : i \in DOMAIN ret}
LatestAcceptedBefore(T) ==
    {id \in IdsBefore(T) : LatestBefore(id, T).State = NodeStateAccepted}

\* C17: every node NodesListWithoutState(T, false) returns carries the state
\* and timestamp of its id's latest registry entry before T, and
\* NodesListWithoutState(T, true) returns exactly the ids whose latest entry
\* before T is Accepted: an id accepted earlier and removed or resigning
\* before T is absent.
C17_LatestPerIdThenAcceptedFilter ==
    IsCall("NodesListWithoutState") =>
        /\ \A i \in DOMAIN ret :
            /\ ret[i].IdForNetwork \in IdsBefore(call.threshold)
            /\ ret[i].State = LatestBefore(ret[i].IdForNetwork, call.threshold).State
            /\ ret[i].Timestamp = LatestBefore(ret[i].IdForNetwork, call.threshold).Timestamp
        /\ call.acceptedOnly => ListedIds = LatestAcceptedBefore(call.threshold)
C17_Witness ==
    /\ IsCall("NodesListWithoutState")
    /\ call.acceptedOnly
    /\ \E n \in EntriesBefore(call.threshold) :
        /\ n.State = NodeStateAccepted
        /\ LatestBefore(n.IdForNetwork, call.threshold).State
                \in {NodeStateRemoved, NodeStateResigning}
        /\ n.IdForNetwork \notin ListedIds
        /\ Len(ret) = 6

\* the ids a list holds
IdsOf(nodes) == {nodes[j].IdForNetwork : j \in DOMAIN nodes}
\* the registry entries up to and including entry i, and the latest of an id
\* among them
UpToEntry(i) == 1 .. i
LatestUpToEntry(id, i) ==
    allNodesSortedWithState[
        CHOOSE j \in UpToEntry(i) :
            /\ allNodesSortedWithState[j].IdForNetwork = id
            /\ \A k \in UpToEntry(i) :
                allNodesSortedWithState[k].IdForNetwork = id => k <= j]
SequencesParallelToRegistry ==
    /\ Len(nodeStateSequences) = Len(allNodesSortedWithState)
    /\ Len(acceptedNodeStateSequences) = Len(allNodesSortedWithState)
    /\ \A i \in DOMAIN allNodesSortedWithState :
        /\ nodeStateSequences[i].Timestamp = allNodesSortedWithState[i].Timestamp
        /\ acceptedNodeStateSequences[i].Timestamp = allNodesSortedWithState[i].Timestamp
\* the node set after every registry entry with timestamp at most at
SetAtTimestamp(nodes, at, acceptedOnly) ==
    /\ IdsOf(nodes) = IF acceptedOnly THEN LatestAcceptedBefore(at + 1)
                                     ELSE IdsBefore(at + 1)
    /\ \A j \in DOMAIN nodes :
        /\ nodes[j].State = LatestBefore(nodes[j].IdForNetwork, at + 1).State
        /\ nodes[j].Timestamp = LatestBefore(nodes[j].IdForNetwork, at + 1).Timestamp
\* the node set after the registry entries 1 .. i and no others
SetAfterEntry(nodes, i, acceptedOnly) ==
    /\ IdsOf(nodes) =
        {allNodesSortedWithState[j].IdForNetwork : j \in
            {j \in UpToEntry(i) :
                ~acceptedOnly \/
                LatestUpToEntry(allNodesSortedWithState[j].IdForNetwork, i).State
                    = NodeStateAccepted}}
    /\ \A j \in DOMAIN nodes :
        /\ nodes[j].State = LatestUpToEntry(nodes[j].IdForNetwork, i).State
        /\ nodes[j].Timestamp = LatestUpToEntry(nodes[j].IdForNetwork, i).Timestamp

\* SetupNode or LoadConsensusNodes has just built the registry
JustLoaded == IsCall("SetupNode") \/ IsCall("LoadConsensusNodes")

\* C18 as stated: once the registry is loaded each node-state sequence is as
\* long as the registry, entry
\* i carries registry entry i's timestamp, and entry i holds the node set
\* that reflects exactly the registry entries 1 .. i, also when several
\* registry entries share a timestamp.
C18_EntryReflectsEventsUpToItself ==
    JustLoaded =>
    /\ SequencesParallelToRegistry
    /\ \A i \in DOMAIN allNodesSortedWithState :
        /\ SetAfterEntry(nodeStateSequences[i].NodesWithoutState, i, FALSE)
        /\ SetAfterEntry(acceptedNodeStateSequences[i].NodesWithoutState, i, TRUE)

\* C18: once the registry is loaded each node-state sequence is as long as
\* the registry, entry i carries
\* registry entry i's timestamp, and entry i holds the node set that reflects
\* exactly the registry entries whose timestamp is at most entry i's
\* timestamp: the entries that share entry i's timestamp are all reflected,
\* those sorted after entry i included.
C18_EntryReflectsEventsUpToItsTimestamp ==
    JustLoaded =>
    /\ SequencesParallelToRegistry
    /\ \A i \in DOMAIN allNodesSortedWithState :
        /\ SetAtTimestamp(nodeStateSequences[i].NodesWithoutState,
                          allNodesSortedWithState[i].Timestamp, FALSE)
        /\ SetAtTimestamp(acceptedNodeStateSequences[i].NodesWithoutState,
                          allNodesSortedWithState[i].Timestamp, TRUE)
C18_Witness ==
    /\ IsCall("LoadConsensusNodes")
    /\ Len(allNodesSortedWithState) = 8
    /\ allNodesSortedWithState[8].Timestamp = Epoch + 1
    /\ allNodesSortedWithState[8].State = NodeStateRemoved
    /\ allNodesSortedWithState[1].Timestamp = allNodesSortedWithState[7].Timestamp
    /\ allNodesSortedWithState[7].IdForNetwork
            \in IdsOf(nodeStateSequences[1].NodesWithoutState)
    /\ Len(acceptedNodeStateSequences[8].NodesWithoutState) = 6

\* the sequence the call reads, and its entries before the call's threshold
SequencesRead == IF call.acceptedOnly THEN acceptedNodeStateSequences
                 ELSE nodeStateSequences
IndexesBefore(T) == {i \in DOMAIN SequencesRead : SequencesRead[i].Timestamp < T}
GreatestIndexBefore(T) == CHOOSE i \in IndexesBefore(T) : \A j \in IndexesBefore(T) : j <= i

\* C19: NodesListWithoutState(T, flag) returns the list of the greatest
\* index i whose sequence entry has timestamp < T, that list is what
\* nodeSequenceWithoutState(T, flag) computes directly from the registry
\* (same ids, states, timestamps and consensus indexes, in the same order),
\* and it is empty when no registry entry has timestamp < T.
C19_IndexAgreesWithDirectComputation ==
    IsCall("NodesListWithoutState") =>
        /\ IndexesBefore(call.threshold) # {} =>
            ret = SequencesRead[GreatestIndexBefore(call.threshold)].NodesWithoutState
        /\ ret = nodeSequenceWithoutState(allNodesSortedWithState, call.threshold,
                                          call.acceptedOnly)
        /\ EntriesBefore(call.threshold) = {} => ret = <<>>
C19_Witness ==
    /\ IsCall("NodesListWithoutState")
    /\ Len(allNodesSortedWithState) = 8
    /\ IndexesBefore(call.threshold) # {}
    /\ GreatestIndexBefore(call.threshold) = 7
    /\ Len(ret) = 7
    /\ ret # SequencesRead[8].NodesWithoutState
    /\ ret = nodeSequenceWithoutState(allNodesSortedWithState, call.threshold,
                                      call.acceptedOnly)

\* The five checks of AuthenticateAs on the message in flight, for the call
\* at hand; the checks that read fields need the fields to be there.
LengthOk == Len(wire) = 137
TimestampOk ==
    \/ call.timeoutSec <= 0
    \/ /\ U64Fits(SubSeq(wire, 1, 8))
       /\ call.now - Uint64(SubSeq(wire, 1, 8)) <= call.timeoutSec
       /\ Uint64(SubSeq(wire, 1, 8)) - call.now <= call.timeoutSec
RecipientOk == SubSeq(wire, 9, 40) = IdBytes(call.recipientId)
PeerIdOnWire == HashForNetwork(SubSeq(wire, 41, 72))
NotSelfOk == PeerIdOnWire # IdBytes(call.recipientId)
SignatureOk ==
    \E k \in Keys :
        /\ PublicSpendKey(k) = SubSeq(wire, 41, 72)
        /\ SubSeq(wire, 74, 137) = Sign(k, Blake3Hash(SubSeq(wire, 1, 73)))
CheckErrors == <<"malformatted", "timeout", "not for me", "peer is self",
                 "signature invalid">>
FailingChecks ==
    IF ~LengthOk THEN {1}
    ELSE {i \in 2 .. 5 : ~(<<TRUE, TimestampOk, RecipientOk, NotSelfOk, SignatureOk>>[i])}
FirstOf(S) == CHOOSE i \in S : \A j \in S : i <= j

\* C20: AuthenticateAs checks length (137 bytes), timeout (only when
\* timeoutSec > 0; fails iff |now - ts| > timeoutSec), recipient, self-peer
\* and signature in this order and returns the error of the first check that
\* fails; it returns a token only when all five pass, and then token.PeerId
\* is not the recipient id and token.Data equals the message.
C20_FirstFailingCheckWins ==
    IsCall("AuthenticateAs") =>
        /\ FailingChecks # {} => ret = AuthError(CheckErrors[FirstOf(FailingChecks)])
        /\ FailingChecks = {} =>
            /\ ret.err = "nil"
            /\ ret.token.PeerId = PeerIdOnWire
            /\ ret.token.PeerId # IdBytes(call.recipientId)
            /\ ret.token.Data = wire
        /\ ret.err = "nil" => FailingChecks = {}
C20_Witness ==
    /\ IsCall("AuthenticateAs")
    /\ FailingChecks = {2, 3, 5}
    /\ Uint64(SubSeq(wire, 1, 8)) > call.now
    /\ ret = AuthError("timeout")

\* the counted consensus base is below the minimum at T
BaseBelowMinimum(T) == CountedBase(T, FALSE) < 7

\* C21: when the counted consensus base is below KernelMinimumNodesCount at
\* the time of the call, the broadcast check and the catch-up check of each
\* transport generation and of both together return false, whatever sync
\* points the peers have reported.
C21_SentinelRefusesChecks ==
    (IsSyncCheck /\ BaseBelowMinimum(call.now)) =>
        ~ret.P2P /\ ~ret.Legacy /\ ~ret.Peers
C21_Witness ==
    /\ IsCall("CheckCatchUpWithPeers")
    /\ StatePresent
    /\ CountedBase(call.now, FALSE) = 6
    /\ Cardinality(AcceptedAt(call.now)) = 7
    /\ Reporting(SyncPointsMap, call.now) = {2, 3, 4, 5, 8}
    /\ SyncPointsMap[4].Number = FinalOfChain + 1
    /\ \A id \in Reporting(SyncPointsMap, call.now) :
        /\ SyncPointsMap[id].Number <= FinalOfChain + 1
        /\ SyncPointsMap[id].Number = FinalOfChain + 1 => CacheAgrees(SyncPointsMap[id], call.now)
    /\ 1 + Cardinality(Reporting(SyncPointsMap, call.now)) >= ((6 * 2) \div 3) + 1
    /\ ~ret.P2P /\ ~ret.Peers

\* the registries LoadConsensusNodes has built or may build from the records
\* the store holds: the store only grows
RegistryOf(records) == SortSlice({CNodeOf(n) : n \in records})
OfOneRegistry(full, accepted) ==
    \E later \in SUBSET (store \ GenesisRecords) :
        \E all \in {RegistryOf(GenesisRecords \cup later)} :
            /\ full = buildNodeStateSequences(all, FALSE)
            /\ accepted = buildNodeStateSequences(all, TRUE)
CheckReturnedAfterReading == reading.pc = "returned" /\ reading.read

\* C22: a check that runs while LoadConsensusNodes runs reads the full
\* sequence and the accepted-only sequence of one and the same registry, the
\* old one or the new one, never the full sequence of one and the
\* accepted-only sequence of the other.
C22_ReloadObservedWhole ==
    CheckReturnedAfterReading => OfOneRegistry(reading.full, reading.accepted)

\* C22, second half: only the steps of LoadConsensusNodes change the registry
\* and the two sequences.
C22_OnlyReloadWritesRegistry ==
    [][(<<allNodesSortedWithState, nodeStateSequences, acceptedNodeStateSequences>>'
            # <<allNodesSortedWithState, nodeStateSequences, acceptedNodeStateSequences>>)
        => (loading.pc # "idle" \/ call'.op = "LoadConsensusNodes")]_vars

\* the steps that have run are the first steps of SetupNode, in its order
RanInOrder ==
    /\ Len(boot.ran) <= Len(BootSteps)
    /\ \A i \in DOMAIN boot.ran : boot.ran[i] = BootSteps[i]
HasRun(name) == \E i \in DOMAIN boot.ran : boot.ran[i] = name
RegistryLoaded ==
    \/ allNodesSortedWithState # <<>>
    \/ nodeStateSequences # <<>>
    \/ acceptedNodeStateSequences # <<>>
ChainBooted == chain.State # <<>>
BootAborted == boot.result = "error"
\* graph validation has run and gave an error or at least one invalid entry
ValidationRefused ==
    /\ HasRun("ValidateGraphEntries")
    /\ boot.validation.err \/ boot.validation.invalid >= 1
BootWellOrdered ==
    /\ RanInOrder
    /\ RegistryLoaded => HasRun("LoadConsensusNodes")
    /\ ChainBooted => HasRun("BootChain")
    /\ boot.result = "node" => boot.ran = BootSteps /\ ret = "nil"
    /\ BootAborted => boot.pc = "returned" /\ ret # "nil" /\ ret = boot.ran[Len(boot.ran)]
    /\ ValidationRefused =>
        /\ BootAborted
        /\ boot.ran[Len(boot.ran)] = "ValidateGraphEntries"
        /\ ~RegistryLoaded
        /\ ~ChainBooted

\* C23: SetupNode runs node config, last mint, genesis read, genesis load,
\* topology counter, graph validation, LoadConsensusNodes, chain and graph
\* timestamp load and local chain boot in this order; a step that fails makes
\* it return the error of that step and no node, and nothing runs or changes
\* afterwards; when graph validation gives an error or at least one invalid
\* entry the registry is never loaded and no chain is booted.
C23_BootStepsInOrderAbortOnFailure ==
    /\ []BootWellOrdered
    /\ [][BootAborted => UNCHANGED vars]_vars
    /\ [][Len(boot.ran') = Len(boot.ran) + 1]_boot
C23_Witness ==
    /\ BootAborted
    /\ ValidationRefused
    /\ ~boot.validation.err
    /\ boot.validation.total = 2
    /\ boot.validation.invalid = 1
    /\ Len(boot.ran) = 6
    /\ Cardinality(store) = 8
    /\ ~RegistryLoaded /\ ~ChainBooted

====
